---- MODULE Spec2Model ----
(***************************************************************************)
(* Model of src/python/vision/hand_tracker.py: the HandTracker background  *)
(* worker (_worker_loop), the snapshot reader (get_frame_and_landmarks)    *)
(* and release().                                                          *)
(*                                                                         *)
(* Time is an integer number of milliseconds; time.time() is the variable  *)
(* clock, which advances in steps of TickMs.  Frames and detections are    *)
(* identified by the number of the camera frame they come from.            *)
(***************************************************************************)
EXTENDS Integers, Sequences, FiniteSets, TLC

(* ---------------------------- bounds ---------------------------------- *)
MaxTicks == 3        \* clock advances at most this many times
MaxFrames == 2       \* the camera delivers at most this many frames
MaxReleases == 2     \* release() is called at most this many times
TickMs == 340        \* granularity of the clock
T0 == 1000           \* time.time() at construction (any value > timeout)

MaxWaits == 6        \* the clock advances by WaitMs at most this many times
WaitMs == 5100       \* a pause between detections, longer than adjust_interval
MaxChanges == 1      \* the detection duration changes at most this many times
MaxStreamFrames == 5 \* frames of a camera that delivers one every FrameMs
MaxFrameTicks == 4   \* the clock advances by FrameMs at most this many times
FrameMs == 40        \* a frame period
MaxLostTicks == 10   \* clock advances while a hand is lost
MaxRetryTicks == 1   \* clock advances while the camera is tried
MaxRunTicks == 60     \* frame periods of a run of ROI detections and skips
MaxAdaptTicks == 3    \* clock advances while the controller is fed by the worker

Readers == {"r1", "r2"}   \* foreign threads calling get_frame_and_landmarks

(* ------------------------ program constants --------------------------- *)
hand_presence_timeout == 350        \* 0.35 s
max_stable_skip == 3
full_detection_interval == 15
join_timeout == 1000                \* self._thread.join(timeout=1.0)
num_landmarks == 21
max_detection_samples == 30
min_detection_samples == 10         \* len(self.detection_times) >= 10
adjust_interval == 5000             \* 5.0 s

(* Detection durations are counted in twelfths of 1 / target_fps. *)
PerTarget == 12                     \* a detection as long as 1 / target_fps
HalfSpeed == 2 * PerTarget          \* 2 / target_fps
Durations == {0, HalfSpeed}         \* too short to measure, or half speed

(* A scale factor is a double.  [tenths |-> k, ulps |-> r] is the double
   nearest k/10 plus r units in the last place (2^-53 between 0.5 and 1.0). *)
Double(k, r) == [tenths |-> k, ulps |-> r]

None == [none |-> TRUE]

(* Constructor arguments, with the settings __init__ derives from the
   delegate (lines 193-203): 1/30 s and every frame on the GPU, 1/25 s and
   every second frame on the CPU.  adaptive_performance is off unless a
   configuration switches it on. *)
Config(flip, roi, kalman, motion, gpu) ==
    [flip_horizontal |-> flip, enable_roi_tracking |-> roi,
     enable_kalman_filter |-> kalman, motion_detection |-> motion,
     adaptive_performance |-> FALSE,
     frame_skip_interval |-> IF gpu THEN 1 ELSE 2,
     min_detection_interval |-> IF gpu THEN 34 ELSE 40,
     detection_scale |-> IF gpu THEN Double(10, 0) ELSE Double(7, 0)]

(* the defaults are those of the tracking features *)
Configs == { Config(TRUE, TRUE, TRUE, TRUE, FALSE),     \* defaults, CPU
             Config(TRUE, TRUE, TRUE, TRUE, TRUE),      \* defaults, GPU delegate
             Config(FALSE, FALSE, FALSE, FALSE, TRUE) } \* every feature off

VARIABLES
    cfg,                      \* constructor arguments
    clock,                    \* time.time()
    running,                  \* self._running
    cap,                      \* self.cap: "None", "opened" or "closed"
    lock,                     \* self._lock: "free", "worker" or a reader
    latest_frame,             \* self._latest_frame
    last_hand_landmarks,      \* self.last_hand_landmarks
    last_hand_seen_time,      \* self.last_hand_seen_time
    last_detection_time,      \* self._last_detection_time
    frame_skip_count,         \* self.frame_skip_count
    stable_frames,            \* self.stable_frames
    frames_since_full_detection,
    current_roi,              \* self.current_roi
    previous_landmarks,       \* self.previous_landmarks
    kalman_initialized,       \* self.kalman_filter.initialized
    wpc,                      \* position of the worker thread
    wl,                       \* locals of the worker's current iteration
    framesRead,               \* number of frames the camera has delivered
    rpc, ret, returned,       \* readers: position, value read, newest values returned so far
    relPc, joinStart, relCount, \* release(): position, join start, completed calls
    pubTime,                  \* clock at the worker's last landmark publish
    lastPub,                  \* the landmark result the worker published last
    afterStop,                \* what the worker did since the stop flag was set
    raised,                   \* the step that raised in the worker's previous cycle, or "none"
    device,                   \* the camera device: "flaky", "down" or "up"
    frameLimit,               \* the number of distinct frames the camera delivers
    tickMs, tickLimit,        \* the clock advances by tickMs, tickLimit times
    scene,                    \* what the camera looks at: "any" or "empty"
    faults,                   \* may the image operations and the detector raise
    filterpy,                 \* did the import of lines 18-21 find the library
    detection_times,          \* self.detection_times
    detection_scale,          \* self.detection_scale
    last_adjustment_time,     \* self.last_adjustment_time
    changes,                  \* how often the detection duration has changed
    args,                     \* the arguments of a function called on its own
    value,                    \* the value that call returned
    kf,                       \* a KalmanLandmarkFilter used on its own
    calls,                    \* the number of calls made to it
    recognizer,               \* a GestureRecognizer, or None
    trail,                    \* the classifications it was given, oldest first
    game                      \* a GestureMemoryGame, or None

coreVars == <<cfg, clock, running, cap, lock, latest_frame, last_hand_landmarks,
          last_hand_seen_time, last_detection_time, frame_skip_count,
          stable_frames, frames_since_full_detection, current_roi,
          previous_landmarks, kalman_initialized, wpc, wl, framesRead,
          rpc, ret, returned, relPc, joinStart, relCount, pubTime, lastPub,
          afterStop, raised>>

(* what the worker, the readers and release() leave alone *)
perfVars == <<detection_times, detection_scale, last_adjustment_time, changes>>
callVars == <<args, value, kf, calls>>
appVars == <<recognizer, trail, game>>
sideVars == <<device, frameLimit, tickMs, tickLimit, scene, faults, filterpy,
              perfVars, callVars, appVars>>

vars == <<coreVars, sideVars>>

trackerVars == <<latest_frame, last_hand_landmarks, last_hand_seen_time,
                 last_detection_time, frame_skip_count, stable_frames,
                 frames_since_full_detection, current_roi, previous_landmarks,
                 kalman_initialized>>
readerVars == <<rpc, ret, returned>>
releaseVars == <<relPc, joinStart, relCount>>

NoLocals == [frame |-> None, now |-> 0, use_roi |-> FALSE, result |-> None,
             landmarks |-> None]
NoRet == [frame |-> None, lm |-> None, t |-> 0]
NoStop == [iters |-> 0, detects |-> 0, publishes |-> 0, frames |-> 0]

(* lines 137-152 and 185-213: the tracker after construction *)
Constructed ==
    /\ clock = T0
    /\ running = TRUE
    /\ cap = "None"
    /\ lock = "free"
    /\ latest_frame = None
    /\ last_hand_landmarks = None
    /\ last_hand_seen_time = 0
    /\ last_detection_time = 0
    /\ frame_skip_count = 0
    /\ stable_frames = 0
    /\ frames_since_full_detection = 0
    /\ current_roi = None
    /\ previous_landmarks = None
    /\ kalman_initialized = FALSE
    /\ wpc = "loop"
    /\ wl = NoLocals
    /\ framesRead = 0
    /\ rpc = [r \in Readers |-> "idle"]
    /\ ret = [r \in Readers |-> NoRet]
    /\ returned = [frame |-> 0, det |-> 0]
    /\ relPc = "idle"
    /\ joinStart = 0
    /\ relCount = 0
    /\ pubTime = 0
    /\ lastPub = None
    /\ afterStop = NoStop
    /\ raised = "none"

CoreInit ==
    /\ cfg \in Configs
    /\ Constructed

(* no function and no filter object is being used on its own *)
NoCall ==
    /\ args = None
    /\ value = None
    /\ kf = None
    /\ calls = 0

(* no recognizer and no game constructed *)
NoApp ==
    /\ recognizer = None
    /\ trail = <<>>
    /\ game = None

(* lines 185-187 and 196/201: the performance metrics after construction *)
MetricsInit ==
    /\ detection_times = <<>>
    /\ detection_scale = cfg.detection_scale
    /\ last_adjustment_time = clock
    /\ changes = 0

(* The surroundings of the tracker.  The camera device is "flaky" (any
   attempt to open or read it may succeed or fail), "down" (it cannot be
   read) or "up" (it opens and every read delivers a valid frame; frames past
   the frameLimit-th are not told apart from it).  The scene is "any" or
   "empty" (no hand in view: the detector returns no hand).  With faults the
   image operations and the detector may raise at any call; without, only
   what the program itself gets wrong raises.  The filter library is
   installed or not. *)
Surroundings(dev, frames, ms, ticks, flt, lib) ==
    /\ device = dev
    /\ frameLimit = frames
    /\ tickMs = ms
    /\ tickLimit = ticks
    /\ scene = "any"
    /\ faults = flt
    /\ filterpy = lib

Init ==
    /\ CoreInit
    /\ Surroundings("flaky", MaxFrames, TickMs, MaxTicks, TRUE, TRUE)
    /\ MetricsInit
    /\ NoCall
    /\ NoApp

(* time.time() advances.  A critical section of self._lock is a few
   assignments, short against TickMs: the clock does not advance inside one. *)
Tick ==
    /\ clock + tickMs <= T0 + tickLimit * tickMs
    /\ lock = "free"
    /\ clock' = clock + tickMs
    /\ UNCHANGED <<sideVars, cfg, running, cap, lock, trackerVars, wpc, wl, framesRead,
                   readerVars, releaseVars, pubTime, lastPub, afterStop, raised>>

(* ------------------------- helpers of the worker ----------------------- *)

(* a handle is created once and never replaced *)
NeedOpenOnce(c) == c = "None"

(* line 219: if self.cap is None or not self.cap.isOpened() *)
NeedOpen(c) == c = "None" \/ c # "opened"

(* a loop that never tests the stop flag *)
LoopCondForever(r) == TRUE

(* line 217: while self._running *)
LoopCond(r) == r

(* a try block that leaves the detector call outside *)
CaughtExceptDetect(step) == step # "detect"

(* lines 218/346: the try block covers every statement of the loop body *)
Caught(step) == TRUE

(* line 246: now - self._last_detection_time >= self._min_detection_interval *)
GateOpen(now, last) == now - last >= cfg.min_detection_interval

(* a counter that lets every frame through *)
NextSkipCountNone(count, interval) == 0

(* lines 250-253 *)
NextSkipCount(count, interval) ==
    IF interval > 1 THEN (count + 1) % interval ELSE 0

(* an ROI that is used for as long as there is one *)
UseRoiNoInterval(enabled, roi, since) == enabled /\ roi # None

(* lines 268-270 *)
UseRoi(enabled, roi, since) ==
    enabled /\ roi # None /\ since < full_detection_interval

(* a hand that never counts as lost *)
WorkerExpiredNever(now, seen) == FALSE

(* the comparison without the timeout: any miss clears at once *)
WorkerExpiredAtOnce(now, seen) == now - seen >= 0

(* line 338: now - self.last_hand_seen_time > self.hand_presence_timeout *)
WorkerExpired(now, seen) == now - seen > hand_presence_timeout

(* a skip budget that never runs out *)
SkipBudgetLeftAlways(skipped) == TRUE

(* line 258: self.stable_frames < self.max_stable_skip *)
SkipBudgetLeft(skipped) == skipped < max_stable_skip

(* a stability check that never finds the hand stable *)
StableEarlyReturnAlways(prev, published) == TRUE

(* line 381: the early return of _is_hand_stable *)
StableEarlyReturn(prev, published) == prev = None \/ published = None

(* lines 384-391: mean |current - previous| < motion_threshold.  Identical
   landmark sets have motion 0; for sets of different detections the motion
   is whatever the hand did. *)
StableOutcomes(current, prev) ==
    IF current = prev THEN {TRUE} ELSE BOOLEAN

(* lines 302-316: the 21 points of a detection; raw when they are the
   detector's output, not raw when the smoother has corrected them *)
Landmarks(det, raw) == [det |-> det, n |-> num_landmarks, raw |-> raw]

(* lines 409-438: the ROI computed from a detection's landmarks *)
RoiOf(lms) == [det |-> lms.det]

(* the published object updated in place, its landmarks only *)
MkHandLandmarksInPlace(lms, conf, hd, roi) ==
    IF last_hand_landmarks = None
      THEN [landmarks |-> lms, confidence |-> conf, handedness |-> hd, roi |-> roi]
      ELSE [last_hand_landmarks EXCEPT !.landmarks = lms]

(* lines 329-334: HandLandmarks(landmarks, confidence, handedness, roi) *)
MkHandLandmarks(lms, conf, hd, roi) ==
    [landmarks |-> lms, confidence |-> conf, handedness |-> hd, roi |-> roi]

(* the exception handler of lines 346-347, entered from a raising step *)
RaiseAt(step) ==
    /\ wpc' = IF Caught(step) THEN "except" ELSE "dead"
    /\ raised' = step

CountStop(field) ==
    IF running THEN afterStop
    ELSE [afterStop EXCEPT ![field] = IF @ < 2 THEN @ + 1 ELSE @]

(* ----------------- _update_performance_metrics ------------------------ *)

(* the doubles compared: a <= b and a < b *)
Leq(a, b) == a.tenths < b.tenths \/ (a.tenths = b.tenths /\ a.ulps <= b.ulps)
Less(a, b) == Leq(a, b) /\ a # b

(* The doubles nearest 0.5, 0.6, 0.7 lie one 0.1 apart, so do those nearest
   0.8, 0.9, 1.0; the double nearest 0.8 is one unit in the last place more
   than 0.1 above the double nearest 0.7. *)
Gap(k) == IF k = 8 THEN 1 ELSE 0

(* x - 0.1 and x + 0.1 in double arithmetic *)
Sub01(x) == Double(x.tenths - 1, x.ulps + Gap(x.tenths))
Add01(x) == Double(x.tenths + 1, x.ulps - Gap(x.tenths + 1))

(* the subtraction left as it is *)
NoClampLow(x) == x

(* line 468: max(0.5, x) *)
ClampLow(x) == IF Less(x, Double(5, 0)) THEN Double(5, 0) ELSE x

(* line 473: min(1.0, x) *)
ClampHigh(x) == IF Less(Double(10, 0), x) THEN Double(10, 0) ELSE x

RECURSIVE Sum(_)
Sum(q) == IF q = <<>> THEN 0 ELSE Head(q) + Sum(Tail(q))

(* lines 455-457: append, and drop the oldest beyond max_detection_samples *)
Record(times, d) ==
    LET appended == Append(times, d)
    IN  IF Len(appended) > max_detection_samples THEN Tail(appended)
                                                 ELSE appended

(* an evaluation at every call once the window is long enough *)
DueNoInterval(now, last, times) == Len(times) >= min_detection_samples

(* line 461 *)
Due(now, last, times) ==
    now - last > adjust_interval /\ Len(times) >= min_detection_samples

(* lines 462-466: current_fps < target_fps * 0.8, with current_fps the
   target when the average is not positive *)
TooSlow(times) ==
    Sum(times) > 0 /\ 10 * PerTarget * Len(times) < 8 * Sum(times)

(* faster than the target at all, without the band above it *)
FastEnoughNoBand(times) ==
    Sum(times) > 0 /\ PerTarget * Len(times) > Sum(times)

(* line 471: current_fps > target_fps * 1.2 *)
FastEnough(times) ==
    Sum(times) > 0 /\ 10 * PerTarget * Len(times) > 12 * Sum(times)

(* lines 466-474: the scale after an evaluation *)
Adjusted(scale, times) ==
    IF TooSlow(times)
      THEN IF Less(Double(5, 0), scale) THEN ClampLow(Sub01(scale)) ELSE scale
    ELSE IF FastEnough(times)
      THEN IF Less(scale, Double(10, 0)) THEN ClampHigh(Add01(scale)) ELSE scale
    ELSE scale

(* an evaluation that leaves the start of the interval where it was *)
AdjustedTimeKept(now, last) == last

(* line 476: self.last_adjustment_time = now *)
AdjustedTime(now, last) == now

(* the feed of durations: the measured duration changes value at most
   MaxChanges times *)
Paced(d) ==
    LET change == IF detection_times # <<>>
                     /\ detection_times[Len(detection_times)] # d
                  THEN 1 ELSE 0
    IN  /\ changes + change <= MaxChanges
        /\ changes' = changes + change

(* lines 455-476: the sample recorded, then the evaluation if it is due *)
RecordAndEvaluate(d) ==
    /\ detection_times' = Record(detection_times, d)
    /\ IF Due(clock, last_adjustment_time, detection_times')
         THEN /\ detection_scale' = Adjusted(detection_scale, detection_times')
              /\ last_adjustment_time' = AdjustedTime(clock, last_adjustment_time)
         ELSE UNCHANGED <<detection_scale, last_adjustment_time>>

(* --------------------------- worker thread ----------------------------- *)

(* line 217: the loop condition *)
W_Loop ==
    /\ wpc = "loop"
    /\ IF LoopCond(running)
         THEN /\ wpc' = "open"
              /\ afterStop' = CountStop("iters")
         ELSE /\ wpc' = "done"
              /\ afterStop' = afterStop
    /\ wl' = NoLocals
    /\ UNCHANGED <<sideVars, cfg, clock, running, cap, lock, trackerVars, framesRead,
                   readerVars, releaseVars, pubTime, lastPub, raised>>

(* line 220: what cv2.VideoCapture(camera_id) leaves in self.cap *)
OpenOutcomes(d) == IF d = "up" THEN {"opened"} ELSE {"opened", "closed"}

(* line 232: can self.cap.read() deliver a frame, can it fail *)
ReadCanSucceed(d, c) ==
    c = "opened" /\ d # "down" /\ (framesRead < frameLimit \/ d = "up")
ReadCanFail(d, c) == ~(d = "up" /\ c = "opened")

(* the number of the frame read after n frames *)
NextFrame(n) == IF n < frameLimit THEN n + 1 ELSE n

(* lines 219-230: open the camera when there is no open handle *)
W_Open ==
    /\ wpc = "open"
    /\ \/ /\ NeedOpen(cap)
          /\ cap' \in OpenOutcomes(device)     \* VideoCapture() may fail to open
          /\ wpc' = "read"
          /\ raised' = "none"
       \/ /\ ~NeedOpen(cap)
          /\ cap' = cap
          /\ wpc' = "read"
          /\ raised' = "none"
       \/ /\ NeedOpen(cap)                     \* VideoCapture() or cap.set() raises
          /\ device # "up"
          /\ cap' \in {cap, "opened", "closed"}
          /\ RaiseAt("open")
    /\ UNCHANGED <<sideVars, cfg, clock, running, lock, trackerVars, wl, framesRead,
                   readerVars, releaseVars, pubTime, lastPub, afterStop>>

(* lines 232-235: read a frame; on failure sleep and continue *)
W_Read ==
    /\ wpc = "read"
    /\ \/ /\ ReadCanSucceed(device, cap)
          /\ framesRead' = NextFrame(framesRead)
          /\ wl' = [wl EXCEPT !.frame = [id |-> NextFrame(framesRead)]]
          /\ wpc' = "flip"
          /\ raised' = raised
       \/ /\ ReadCanFail(device, cap)          \* not success: sleep(0.005); continue
          /\ wpc' = "loop"
          /\ UNCHANGED <<framesRead, wl, raised>>
       \/ /\ device # "up"
          /\ RaiseAt("read")
          /\ UNCHANGED <<framesRead, wl>>
    /\ UNCHANGED <<sideVars, cfg, clock, running, cap, lock, trackerVars,
                   readerVars, releaseVars, pubTime, lastPub, afterStop>>

(* lines 237-238: mirror the frame; cv2.flip raises on a broken frame only *)
W_Flip ==
    /\ wpc = "flip"
    /\ \/ /\ wpc' = "frame_acq"
          /\ raised' = raised
       \/ /\ cfg.flip_horizontal
          /\ device # "up"
          /\ RaiseAt("flip")
    /\ UNCHANGED <<sideVars, cfg, clock, running, cap, lock, trackerVars, wl, framesRead,
                   readerVars, releaseVars, pubTime, lastPub, afterStop>>

(* lines 241, 328, 339: with self._lock *)
W_Acquire ==
    /\ wpc \in {"frame_acq", "publish_acq", "clear_acq"}
    /\ lock = "free"
    /\ lock' = "worker"
    /\ wpc' = CASE wpc = "frame_acq" -> "frame_cs"
                [] wpc = "publish_acq" -> "publish_cs"
                [] wpc = "clear_acq" -> "clear_cs"
    /\ UNCHANGED <<sideVars, cfg, clock, running, cap, trackerVars, wl, framesRead,
                   readerVars, releaseVars, pubTime, lastPub, afterStop, raised>>

(* a slot that is written only once its content has been read *)
W_PublishFrameWhenRead ==
    /\ wpc = "frame_cs"
    /\ IF latest_frame = None THEN TRUE ELSE returned.frame >= latest_frame.id
    /\ latest_frame' = wl.frame
    /\ lock' = "free"
    /\ wpc' = "gate"
    /\ afterStop' = CountStop("frames")
    /\ UNCHANGED <<sideVars, cfg, clock, running, cap, last_hand_landmarks,
                   last_hand_seen_time, last_detection_time, frame_skip_count,
                   stable_frames, frames_since_full_detection, current_roi,
                   previous_landmarks, kalman_initialized, wl, framesRead,
                   readerVars, releaseVars, pubTime, lastPub, raised>>

(* a lock that is kept after the frame has been assigned *)
W_PublishFrameKeepLock ==
    /\ wpc = "frame_cs"
    /\ latest_frame' = wl.frame
    /\ lock' = lock
    /\ wpc' = "gate"
    /\ afterStop' = CountStop("frames")
    /\ UNCHANGED <<sideVars, cfg, clock, running, cap, last_hand_landmarks,
                   last_hand_seen_time, last_detection_time, frame_skip_count,
                   stable_frames, frames_since_full_detection, current_roi,
                   previous_landmarks, kalman_initialized, wl, framesRead,
                   readerVars, releaseVars, pubTime, lastPub, raised>>

(* line 242: self._latest_frame = frame *)
W_PublishFrame ==
    /\ wpc = "frame_cs"
    /\ latest_frame' = wl.frame
    /\ lock' = "free"
    /\ wpc' = "gate"
    /\ afterStop' = CountStop("frames")
    /\ UNCHANGED <<sideVars, cfg, clock, running, cap, last_hand_landmarks,
                   last_hand_seen_time, last_detection_time, frame_skip_count,
                   stable_frames, frames_since_full_detection, current_roi,
                   previous_landmarks, kalman_initialized, wl, framesRead,
                   readerVars, releaseVars, pubTime, lastPub, raised>>

(* lines 245-255: take the cycle's timestamp; minimum-interval and frame-skip
   gating.  A gated-out frame leaves _last_detection_time alone (line 345 is
   inside the if of line 246). *)
W_Gate ==
    /\ wpc = "gate"
    /\ wl' = [wl EXCEPT !.now = clock]
    /\ IF GateOpen(clock, last_detection_time)
         THEN /\ frame_skip_count' =
                     NextSkipCount(frame_skip_count, cfg.frame_skip_interval)
              /\ IF frame_skip_count' = 0
                   THEN /\ wpc' = "motion"
                        /\ last_detection_time' = last_detection_time
                   ELSE /\ wpc' = "loop"
                        /\ last_detection_time' = clock
         ELSE /\ wpc' = "loop"
              /\ UNCHANGED <<frame_skip_count, last_detection_time>>
    /\ UNCHANGED <<sideVars, cfg, clock, running, cap, lock, latest_frame,
                   last_hand_landmarks, last_hand_seen_time, stable_frames,
                   frames_since_full_detection, current_roi, previous_landmarks,
                   kalman_initialized, framesRead, readerVars, releaseVars,
                   pubTime, lastPub, afterStop, raised>>

(* lines 257-259 and 381: should the stability check run, and its early
   return; self.last_hand_landmarks is read without the lock *)
W_Motion ==
    /\ wpc = "motion"
    /\ IF /\ cfg.motion_detection
          /\ SkipBudgetLeft(stable_frames)
          /\ previous_landmarks # None
          /\ ~StableEarlyReturn(previous_landmarks, last_hand_landmarks)
         THEN wpc' = "stable"
         ELSE wpc' = "prep"
    /\ UNCHANGED <<sideVars, cfg, clock, running, cap, lock, trackerVars, wl, framesRead,
                   readerVars, releaseVars, pubTime, lastPub, afterStop, raised>>

(* lines 384-391 and 260-261: the second, unlocked read of
   self.last_hand_landmarks and the comparison with the baseline *)
W_Stable ==
    /\ wpc = "stable"
    /\ \/ /\ last_hand_landmarks # None
          /\ \E st \in StableOutcomes(last_hand_landmarks.landmarks,
                                      previous_landmarks) :
               IF st THEN /\ stable_frames' = stable_frames + 1
                          /\ last_detection_time' = wl.now
                          /\ wpc' = "loop"
                     ELSE /\ wpc' = "prep"
                          /\ UNCHANGED <<stable_frames, last_detection_time>>
          /\ raised' = raised
       \/ /\ faults \/ last_hand_landmarks = None
          /\ RaiseAt("stable")   \* None.landmarks, or the array arithmetic
          /\ UNCHANGED <<stable_frames, last_detection_time>>
    /\ UNCHANGED <<sideVars, cfg, clock, running, cap, lock, latest_frame,
                   last_hand_landmarks, last_hand_seen_time, frame_skip_count,
                   frames_since_full_detection, current_roi, previous_landmarks,
                   kalman_initialized, wl, framesRead, readerVars, releaseVars,
                   pubTime, lastPub, afterStop>>

(* lines 263-291: ROI or full frame, crop, resize, colour conversion *)
W_Prep ==
    /\ wpc = "prep"
    /\ stable_frames' = 0
    /\ LET since == frames_since_full_detection + 1
           use_roi == UseRoi(cfg.enable_roi_tracking, current_roi, since)
       IN  /\ frames_since_full_detection' = IF use_roi THEN since ELSE 0
           /\ wl' = [wl EXCEPT !.use_roi = use_roi]
    /\ \/ /\ wpc' = "detect"
          /\ raised' = raised
       \/ /\ faults
          /\ RaiseAt("prep")     \* _extract_roi, resize, cvtColor, _enhance_frame
    /\ UNCHANGED <<sideVars, cfg, clock, running, cap, lock, latest_frame,
                   last_hand_landmarks, last_hand_seen_time, last_detection_time,
                   frame_skip_count, current_roi, previous_landmarks,
                   kalman_initialized, framesRead, readerVars, releaseVars,
                   pubTime, lastPub, afterStop>>

(* lines 297-299: the duration of the detection goes to the controller when
   adaptive_performance is on *)
TrackDetectionTime ==
    IF cfg.adaptive_performance
      THEN \E d \in Durations : Paced(d) /\ RecordAndEvaluate(d)
      ELSE UNCHANGED perfVars

(* lines 293-299: self.hand_landmarker.detect(mp_image), and the duration
   recorded once it has returned *)
W_Detect ==
    /\ wpc = "detect"
    /\ afterStop' = CountStop("detects")
    /\ \/ /\ scene # "empty"
          /\ wl' = [wl EXCEPT !.result = [hand |-> TRUE, det |-> wl.frame.id]]
          /\ wpc' = "post"
          /\ raised' = raised
          /\ TrackDetectionTime
       \/ /\ wl' = [wl EXCEPT !.result = [hand |-> FALSE]]
          /\ wpc' = "post"
          /\ raised' = raised
          /\ TrackDetectionTime
       \/ /\ faults
          /\ RaiseAt("detect")
          /\ wl' = wl
          /\ UNCHANGED perfVars
    /\ UNCHANGED <<device, frameLimit, tickMs, tickLimit, scene, faults, filterpy,
                   callVars, appVars, cfg, clock, running, cap, lock, trackerVars,
                   framesRead,
                   readerVars, releaseVars, pubTime, lastPub>>

EnableKalmanUnchecked(enable, lib) == enable

(* line 135: self.enable_kalman_filter; line 152 builds the smoother only
   when it is true *)
EnableKalman(enable, lib) == enable /\ lib

(* lines 297-326 and 336-338: after the detector returned.  A hand: map out of
   the ROI, smooth, recompute the ROI, store the motion baseline.  No hand:
   compare the cycle's timestamp with last_hand_seen_time. *)
W_Post ==
    /\ wpc = "post"
    /\ \/ /\ wl.result.hand
          /\ LET lms == Landmarks(wl.result.det,
                                  ~(EnableKalman(cfg.enable_kalman_filter, filterpy)
                                    /\ kalman_initialized))
             IN  /\ wl' = [wl EXCEPT !.landmarks = lms]
                 /\ previous_landmarks' = lms
                 /\ current_roi' = IF cfg.enable_roi_tracking
                                     THEN RoiOf(lms) ELSE current_roi
          /\ kalman_initialized' = (EnableKalman(cfg.enable_kalman_filter, filterpy)
                                    \/ kalman_initialized)
          /\ wpc' = "publish_acq"
          /\ UNCHANGED <<last_detection_time, raised>>
       \/ /\ wl.result.hand      \* mapping, filtering or ROI computation raises
          /\ faults
          /\ kalman_initialized' \in
                {kalman_initialized,
                 EnableKalman(cfg.enable_kalman_filter, filterpy)
                    \/ kalman_initialized}
          /\ RaiseAt("post")
          /\ UNCHANGED <<wl, previous_landmarks, current_roi, last_detection_time>>
       \/ /\ ~wl.result.hand
          /\ IF WorkerExpired(wl.now, last_hand_seen_time)
               THEN /\ wpc' = "clear_acq"
                    /\ last_detection_time' = last_detection_time
               ELSE /\ wpc' = "loop"
                    /\ last_detection_time' = wl.now
          /\ UNCHANGED <<wl, previous_landmarks, current_roi, kalman_initialized,
                         raised>>
    /\ UNCHANGED <<sideVars, cfg, clock, running, cap, lock, latest_frame,
                   last_hand_landmarks, last_hand_seen_time, frame_skip_count,
                   stable_frames, frames_since_full_detection, framesRead,
                   readerVars, releaseVars, pubTime, lastPub, afterStop>>

(* lines 328-335 and 345: publish the result and its timestamp under the lock *)
W_PublishLandmarks ==
    /\ wpc = "publish_cs"
    /\ last_hand_landmarks' = MkHandLandmarks(wl.landmarks, wl.result.det,
                                              wl.result.det, current_roi)
    /\ last_hand_seen_time' = wl.now
    /\ lock' = "free"
    /\ last_detection_time' = wl.now
    /\ wpc' = "loop"
    /\ pubTime' = clock
    /\ lastPub' = last_hand_landmarks'
    /\ afterStop' = CountStop("publishes")
    /\ UNCHANGED <<sideVars, cfg, clock, running, cap, latest_frame, frame_skip_count,
                   stable_frames, frames_since_full_detection, current_roi,
                   previous_landmarks, kalman_initialized, wl, framesRead,
                   readerVars, releaseVars, raised>>

(* a loss that clears the published result and nothing else *)
W_ClearResultOnly ==
    /\ wpc = "clear_cs"
    /\ last_hand_landmarks' = None
    /\ lock' = "free"
    /\ last_detection_time' = wl.now
    /\ wpc' = "loop"
    /\ UNCHANGED <<sideVars, cfg, clock, running, cap, latest_frame, last_hand_seen_time,
                   frame_skip_count, stable_frames, frames_since_full_detection,
                   current_roi, kalman_initialized, previous_landmarks,
                   wl, framesRead, readerVars, releaseVars, pubTime, lastPub,
                   afterStop, raised>>

(* lines 339-345: the hand is lost: clear the published result under the lock,
   then the ROI, the smoother and the motion baseline *)
W_Clear ==
    /\ wpc = "clear_cs"
    /\ last_hand_landmarks' = None
    /\ lock' = "free"
    /\ current_roi' = None
    /\ kalman_initialized' = FALSE
    /\ previous_landmarks' = None
    /\ last_detection_time' = wl.now
    /\ wpc' = "loop"
    /\ UNCHANGED <<sideVars, cfg, clock, running, cap, latest_frame, last_hand_seen_time,
                   frame_skip_count, stable_frames, frames_since_full_detection,
                   wl, framesRead, readerVars, releaseVars, pubTime, lastPub,
                   afterStop, raised>>

(* lines 346-347: except Exception: time.sleep(0.005) *)
W_Except ==
    /\ wpc = "except"
    /\ wpc' = "loop"
    /\ UNCHANGED <<sideVars, cfg, clock, running, cap, lock, trackerVars, wl, framesRead,
                   readerVars, releaseVars, pubTime, lastPub, afterStop, raised>>

(* the body of the try statement, lines 219-345 *)
WorkerBody ==
    \/ W_Loop \/ W_Open \/ W_Read \/ W_Flip \/ W_Acquire \/ W_PublishFrame
    \/ W_Gate \/ W_Motion \/ W_Stable \/ W_Prep \/ W_Detect \/ W_Post
    \/ W_PublishLandmarks \/ W_Clear

Worker == WorkerBody \/ W_Except

(* ------------------- get_frame_and_landmarks (readers) ----------------- *)

(* the copy without the None test: None.copy() raises *)
CopyFrameUnguarded(f) == IF f # None THEN f ELSE [raised |-> TRUE]

(* line 357: self._latest_frame.copy() if self._latest_frame is not None *)
CopyFrame(f) == IF f # None THEN f ELSE None

(* the subtraction with its operands exchanged *)
ReaderExpiredSwapped(t, seen) == seen - t > hand_presence_timeout

(* line 359: time.time() - self.last_hand_seen_time > self.hand_presence_timeout *)
ReaderExpired(t, seen) == t - seen > hand_presence_timeout

(* lines 358-361 *)
ReadLandmarks(published, t, seen) ==
    IF published # None /\ ReaderExpired(t, seen) THEN None ELSE published

FrameNo(f) == IF f = None \/ "id" \notin DOMAIN f THEN 0 ELSE f.id
DetNo(lm) == IF lm = None THEN 0 ELSE lm.landmarks.det

(* lines 356-361: the body of the critical section *)
R_Read(r) ==
    /\ rpc[r] = "idle"
    /\ lock = "free"
    /\ lock' = r
    /\ rpc' = [rpc EXCEPT ![r] = "cs"]
    /\ last_hand_landmarks' =
           ReadLandmarks(last_hand_landmarks, clock, last_hand_seen_time)
    /\ ret' = [ret EXCEPT ![r] = [frame |-> CopyFrame(latest_frame),
                                  lm |-> last_hand_landmarks', t |-> clock]]
    /\ UNCHANGED <<sideVars, cfg, clock, running, cap, latest_frame, last_hand_seen_time,
                   last_detection_time, frame_skip_count, stable_frames,
                   frames_since_full_detection, current_roi, previous_landmarks,
                   kalman_initialized, wpc, wl, framesRead, returned, releaseVars,
                   pubTime, lastPub, afterStop, raised>>

(* line 362: leave the lock and return (frame, hand_landmarks) *)
R_Return(r) ==
    /\ rpc[r] = "cs"
    /\ lock' = "free"
    /\ rpc' = [rpc EXCEPT ![r] = "idle"]
    /\ returned' = [frame |-> IF FrameNo(ret[r].frame) > returned.frame
                                 THEN FrameNo(ret[r].frame) ELSE returned.frame,
                     det |-> IF DetNo(ret[r].lm) > returned.det
                               THEN DetNo(ret[r].lm) ELSE returned.det]
    /\ ret' = [ret EXCEPT ![r] = NoRet]
    /\ UNCHANGED <<sideVars, cfg, clock, running, cap, trackerVars, wpc, wl, framesRead,
                   releaseVars, pubTime, lastPub, afterStop, raised>>

(* ------------------------------ release() ------------------------------ *)

(* line 483: join(timeout=1.0) returns when the worker has ended or the
   timeout has elapsed *)
JoinReturns(alive, waited) == ~alive \/ waited >= join_timeout

(* lines 486-487: if self.cap is not None: self.cap.release() *)
ReleaseCap(c) == IF c # "None" THEN "closed" ELSE c

WorkerAlive == wpc \notin {"done", "dead"}

(* line 480: self._running = False *)
Rel_Start ==
    /\ relPc = "idle"
    /\ relCount < MaxReleases
    /\ running' = FALSE
    /\ relPc' = "join"
    /\ joinStart' = clock
    /\ UNCHANGED <<sideVars, cfg, clock, cap, lock, trackerVars, wpc, wl, framesRead,
                   readerVars, relCount, pubTime, lastPub, afterStop, raised>>

(* lines 481-485 *)
Rel_Join ==
    /\ relPc = "join"
    /\ JoinReturns(WorkerAlive, clock - joinStart)
    /\ relPc' = "cleanup"
    /\ UNCHANGED <<sideVars, cfg, clock, running, cap, lock, trackerVars, wpc, wl,
                   framesRead, readerVars, joinStart, relCount, pubTime, lastPub,
                   afterStop, raised>>

(* lines 486-487, and the return *)
Rel_Cleanup ==
    /\ relPc = "cleanup"
    /\ cap' = ReleaseCap(cap)
    /\ relPc' = "idle"
    /\ relCount' = relCount + 1
    /\ joinStart' = 0
    /\ UNCHANGED <<sideVars, cfg, clock, running, lock, trackerVars, wpc, wl, framesRead,
                   readerVars, pubTime, lastPub, afterStop, raised>>

Release == Rel_Start \/ Rel_Join \/ Rel_Cleanup

(* ----------------- the performance controller alone ------------------- *)

(* lines 453-476: _update_performance_metrics(detection_time) *)
UpdatePerformanceMetrics(d) ==
    /\ Paced(d)
    /\ RecordAndEvaluate(d)
    /\ UNCHANGED <<coreVars, device, frameLimit, tickMs, tickLimit, scene,
                   faults, filterpy, callVars, appVars>>

(* time.time() between two detections.  Once the interval has elapsed more
   waiting changes nothing that line 461 tests. *)
Wait ==
    /\ clock + WaitMs <= T0 + MaxWaits * WaitMs
    /\ clock - last_adjustment_time <= adjust_interval
    /\ clock' = clock + WaitMs
    /\ UNCHANGED <<sideVars, cfg, running, cap, lock, trackerVars, wpc, wl,
                   framesRead, readerVars, releaseVars, pubTime, lastPub,
                   afterStop, raised>>

(* The performance metrics alone: detections of any of the durations, any
   time apart. *)
PerfNext == Wait \/ \E d \in Durations : UpdatePerformanceMetrics(d)

PerfSpec == Init /\ [][PerfNext]_vars

Next ==
    \/ Tick
    \/ Worker
    \/ \E r \in Readers : R_Read(r) \/ R_Return(r)
    \/ Release

Spec == Init /\ [][Next]_vars

(* The worker is a thread of its own and every reader leaves the lock: the
   scheduler runs each of them again and again, and a worker waiting for a
   lock that readers take and leave over and over gets it in the end. *)
Fairness ==
    /\ WF_vars(Worker)
    /\ SF_vars(W_Acquire)
    /\ \A r \in Readers : WF_vars(R_Return(r))

FairSpec == Spec /\ Fairness

(* The tracker on its own: the worker, the clock and release(), with no
   thread reading.  Nobody else takes the lock, so a worker that is scheduled
   again and again is never kept waiting. *)
StopNext == Tick \/ Worker \/ Release

StopSpec == Init /\ [][StopNext]_vars /\ WF_vars(Worker)

(* The camera alone: a device that is down and, at some moment of the
   environment's choosing, comes up and stays up; the worker, the clock and
   one reading thread.  Opening and reading the device may raise while it is
   down; nothing else raises.  release() is never called, so the stop flag
   stays unset. *)
RetryInit ==
    /\ CoreInit
    /\ Surroundings("down", MaxFrames, TickMs, MaxRetryTicks, FALSE, TRUE)
    /\ MetricsInit
    /\ NoCall
    /\ NoApp

CameraUp ==
    /\ device = "down"
    /\ device' = "up"
    /\ UNCHANGED <<coreVars, frameLimit, tickMs, tickLimit, scene, faults,
                   filterpy, perfVars, callVars, appVars>>

RetryNext ==
    \/ Tick
    \/ Worker
    \/ CameraUp
    \/ R_Read("r1") \/ R_Return("r1")

RetrySpec ==
    /\ RetryInit /\ [][RetryNext]_vars
    /\ WF_vars(Worker) /\ SF_vars(W_Acquire) /\ WF_vars(R_Return("r1"))

(* A stream of frames one frame period apart, with motion detection on: the
   worker and the clock.  Nobody reads and nothing expires within the few
   frame periods of the stream. *)
StreamInit ==
    /\ CoreInit
    /\ cfg.motion_detection
    /\ Surroundings("flaky", MaxStreamFrames, FrameMs, MaxFrameTicks, TRUE, TRUE)
    /\ MetricsInit
    /\ NoCall
    /\ NoApp

StreamNext == Tick \/ Worker

StreamSpec == StreamInit /\ [][StreamNext]_vars

(* A hand that leaves: a camera that is up, a scene that is empty from some
   moment on, no faults, the worker and the clock.  A capture cycle is short
   against tickMs: the clock advances while the published result has not
   expired or the worker has to wait for the minimum detection interval, and
   not past a detection that is due.  Time passes and the worker is
   scheduled again and again; nobody else takes the lock.  Nothing raises,
   so the handler of lines 346-347 has no part.  What a read would
   return is ReadLandmarks of the state. *)
LostInit ==
    /\ CoreInit
    /\ cfg.motion_detection
    /\ Surroundings("up", MaxFrames, TickMs, MaxLostTicks, FALSE, TRUE)
    /\ MetricsInit
    /\ NoCall
    /\ NoApp

HandLeaves ==
    /\ scene = "any"
    /\ scene' = "empty"
    /\ UNCHANGED <<coreVars, device, frameLimit, tickMs, tickLimit, faults,
                   filterpy, perfVars, callVars, appVars>>

LostTick ==
    /\ \/ ~GateOpen(clock, last_detection_time)
       \/ ~WorkerExpired(clock, last_hand_seen_time)
    /\ Tick

LostNext == LostTick \/ WorkerBody \/ HandLeaves

LostSpec ==
    /\ LostInit /\ [][LostNext]_vars
    /\ SF_vars(LostTick) /\ WF_vars(WorkerBody)

(* ======================= properties of the reader ====================== *)

Reading(r) == rpc[r] = "cs"

(* C1: get_frame_and_landmarks() never raises; while no frame has been
   captured it returns (None, None); it returns landmarks only together with
   a frame. *)
C1_ReadNeverFails ==
    \A r \in Readers : Reading(r) =>
        /\ "raised" \notin DOMAIN ret[r].frame
        /\ latest_frame = None => (ret[r].frame = None /\ ret[r].lm = None)
        /\ ret[r].lm # None => ret[r].frame # None

C1_Witness ==
    \E r \in Readers : Reading(r) /\ ret[r].frame # None /\ ret[r].lm # None

(* every field of a landmark result comes from one detection, 21 points *)
Whole(lm) ==
    /\ lm.landmarks.n = num_landmarks
    /\ lm.confidence = lm.landmarks.det
    /\ lm.handedness = lm.landmarks.det
    /\ IF cfg.enable_roi_tracking THEN lm.roi = RoiOf(lm.landmarks)
                                  ELSE lm.roi = None

(* C2: every read returns a frame and a landmark result that one worker cycle
   published whole, and no read returns an older frame or the result of an
   older detection than a read before it. *)
C2_WholeAndMonotonic ==
    \A r \in Readers : Reading(r) =>
        /\ ret[r].frame = latest_frame
        /\ FrameNo(ret[r].frame) >= returned.frame
        /\ ret[r].lm # None =>
              /\ Whole(ret[r].lm)
              /\ ret[r].lm = lastPub
              /\ DetNo(ret[r].lm) >= returned.det

C2_Witness ==
    \E r \in Readers :
        /\ Reading(r)
        /\ returned.frame >= 1
        /\ returned.det >= 1
        /\ FrameNo(ret[r].frame) > returned.frame
        /\ DetNo(ret[r].lm) > returned.det

IsRead == \E r \in Readers : rpc[r] = "idle" /\ rpc'[r] = "cs"

(* C3: a read changes no tracker state. *)
C3_ReadChangesNothing ==
    [][IsRead => UNCHANGED <<latest_frame, last_hand_landmarks,
                             last_hand_seen_time, current_roi,
                             kalman_initialized, previous_landmarks>>]_vars

(* C4: a read made later than the presence timeout after the worker's last
   publish returns no landmarks. *)
C4_ReadAfterTimeoutIsNone ==
    \A r \in Readers :
        (Reading(r) /\ lastPub # None
                    /\ ret[r].t > pubTime + hand_presence_timeout)
            => ret[r].lm = None

(* the read itself expires the result: the worker has not cleared anything *)
C4_Witness ==
    \E r \in Readers :
        /\ Reading(r) /\ lastPub # None
        /\ ret[r].t > pubTime + hand_presence_timeout
        /\ ret[r].lm = None
        /\ previous_landmarks = lastPub.landmarks

(* C5 as claimed: a read made earlier than the presence timeout after the
   worker published a result returns that result. *)
C5_ReadBeforeTimeoutSincePublish ==
    \A r \in Readers :
        (Reading(r) /\ lastPub # None
                    /\ ret[r].t < pubTime + hand_presence_timeout)
            => ret[r].lm = lastPub

(* C5 amended: the timeout counts from the timestamp the worker stored with
   the result (last_hand_seen_time, taken before the detector ran).  Until
   it has elapsed the published result stays, whatever the worker detects
   and whoever reads, and every read returns it. *)
C5_ReadBeforeTimeoutSinceSeen ==
    /\ (lastPub # None /\ clock < last_hand_seen_time + hand_presence_timeout)
           => last_hand_landmarks = lastPub
    /\ \A r \in Readers :
        (Reading(r) /\ lastPub # None
                    /\ ret[r].t < last_hand_seen_time + hand_presence_timeout)
            => ret[r].lm = lastPub

(* a read inside the window, after a later detection found no hand *)
C5_Witness ==
    \E r \in Readers :
        /\ Reading(r) /\ lastPub # None
        /\ ret[r].t < last_hand_seen_time + hand_presence_timeout
        /\ ret[r].lm = lastPub
        /\ wpc = "loop" /\ wl.result = [hand |-> FALSE]

(* ==================== properties of release() and the worker =========== *)

(* C6: once release() has returned, the tracker holds no open camera. *)
C6_NoOpenCameraAfterRelease ==
    relCount >= 1 => cap # "opened"

ReleaseReturns == relPc = "cleanup" /\ relPc' = "idle"

(* C7: a release() after a release() that has returned is without effect:
   the tracker is left as the first call left it. *)
C7_ReleaseIdempotent ==
    [][(relCount >= 1 /\ ReleaseReturns) =>
            (running' = running /\ cap' = cap /\ wpc' = wpc)]_vars

(* C8: once the stop flag is set the worker starts no new iteration, invokes
   the detector and publishes at most once more, and then terminates for
   good. *)
C8_StopsAfterCurrentIteration ==
    /\ [](/\ afterStop.iters = 0
          /\ afterStop.detects <= 1
          /\ afterStop.publishes <= 1
          /\ afterStop.frames <= 1)
    /\ [][wpc = "done" => wpc' = "done"]_vars
    /\ (~running ~> wpc = "done")

(* the worker finished the iteration in progress, detector call and publish
   included, after the stop flag was set, and ended *)
C8_Witness ==
    /\ ~running /\ wpc = "done"
    /\ afterStop.detects = 1 /\ afterStop.publishes = 1

(* C9: an exception raised at any step of a cycle ends in the handler of that
   cycle; the worker thread ends only when the stop flag is set, and after
   the handler it tests the loop condition again and, the flag unset, starts
   another cycle. *)
C9_ExceptionsStayInsideCycle ==
    /\ [](wpc # "dead" /\ (wpc = "done" => ~running))
    /\ [][raised' # raised /\ raised' # "none" => wpc' = "except"]_vars
    /\ [][wpc = "except" /\ wpc' # wpc => wpc' = "loop"]_vars
    /\ (wpc = "except" ~> (wpc = "open" \/ ~running))

(* a cycle has started after a cycle whose detector call raised *)
C9_Witness ==
    raised = "detect" /\ wpc = "open" /\ running

(* C10: a cycle whose detector call raised applies the negative-result
   handling: with the hand absent longer than the presence timeout, the
   published result, the ROI, the smoother and the motion baseline are
   cleared when the cycle ends. *)
C10_DetectorErrorIsNoHand ==
    (/\ wpc = "except" /\ raised = "detect"
     /\ WorkerExpired(wl.now, last_hand_seen_time))
        => /\ last_hand_landmarks = None
           /\ current_roi = None
           /\ ~kalman_initialized
           /\ previous_landmarks = None

(* ========================= properties of the camera ==================== *)

(* C11: while the camera cannot be read the worker stays in its opening and
   capturing steps and tries again and again; it never ends, no frame is
   published and every read returns (None, None) without an error; once the
   camera is readable for good a frame is published. *)
C11_RetriesUntilReadable ==
    /\ [](device = "down" =>
            /\ wpc \in {"loop", "open", "read", "except"}
            /\ latest_frame = None
            /\ Reading("r1") => /\ ret["r1"].frame = None
                                /\ ret["r1"].lm = None)
    /\ [](wpc \notin {"done", "dead"})
    /\ []<>(wpc = "open")
    /\ (device = "up" ~> latest_frame # None)

(* the worker is about to open the camera again after an attempt that failed,
   while a read returns (None, None) *)
C11_Witness ==
    /\ device = "down" /\ wpc = "open" /\ cap = "closed" /\ clock > T0
    /\ Reading("r1") /\ ret["r1"].frame = None /\ ret["r1"].lm = None

(* ===================== properties of the adaptive scale ================ *)

(* C12: the detection scale is always within [0.5, 1.0]. *)
C12_ScaleWithinBounds ==
    Leq(Double(5, 0), detection_scale) /\ Leq(detection_scale, Double(10, 0))

(* the scale has climbed from 0.7 to the ceiling *)
C12_Witness ==
    /\ cfg.detection_scale = Double(7, 0)
    /\ detection_scale = Double(10, 0)
    /\ Len(detection_times) = max_detection_samples

(* the newest n recorded durations are all d *)
LastAre(times, n, d) ==
    /\ Len(times) >= n
    /\ \A i \in (Len(times) - n + 1)..Len(times) : times[i] = d

(* a call of _update_performance_metrics that evaluates, the newest 20
   durations being 2 / target_fps *)
HalfSpeedEvaluation ==
    /\ clock' = clock
    /\ Due(clock, last_adjustment_time, detection_times')
    /\ LastAre(detection_times', 20, HalfSpeed)

(* the scale changes only when the interval has elapsed, and the change
   starts a new interval: one step at most for one elapsed interval *)
OneChangePerInterval ==
    detection_scale' # detection_scale =>
        /\ clock - last_adjustment_time > adjust_interval
        /\ last_adjustment_time' = clock

(* C13 as claimed: an evaluation after 20 durations of 2 / target_fps leaves
   the scale exactly 0.1 lower, or at 0.5 if it was 0.5; one step at most for
   one elapsed interval. *)
C13_OneStepOrAtFloor ==
    /\ [][HalfSpeedEvaluation =>
            \/ detection_scale' = Sub01(detection_scale)
            \/ detection_scale = Double(5, 0) /\ detection_scale' = Double(5, 0)]_vars
    /\ [][OneChangePerInterval]_vars

(* C13 amended: the scale becomes 0.1 lower, or exactly 0.5 if it was less
   than 0.1 above 0.5 (0.5 itself, or the 0.5000000000000001 that five steps
   down from 1.0 give); one step at most for one elapsed interval. *)
C13_OneStepOrToFloor ==
    /\ [][HalfSpeedEvaluation =>
            \/ /\ detection_scale.tenths > 5
               /\ detection_scale' = Sub01(detection_scale)
            \/ /\ detection_scale.tenths = 5
               /\ detection_scale' = Double(5, 0)]_vars
    /\ [][OneChangePerInterval]_vars

(* six intervals of nothing but half-speed detections have taken the scale
   from 1.0 to 0.5, the last of them from 0.5000000000000001 *)
C13_Witness ==
    /\ cfg.detection_scale = Double(10, 0)
    /\ detection_scale = Double(5, 0)
    /\ changes = 0 /\ LastAre(detection_times, 20, HalfSpeed)
    /\ last_adjustment_time = clock /\ clock = T0 + 6 * WaitMs

(* ==================== properties of the stability skip ================= *)

(* C14 as claimed: of the three detect-eligible frames after a successful
   detection one invokes the detector and two are skipped: never three
   eligible cycles in a row are skipped. *)
C14_OneInvocationInThree ==
    stable_frames < max_stable_skip

(* the worker decides about the detection of an eligible frame *)
Decides == wpc = "motion" /\ wpc' # wpc
Compared == wpc = "stable" /\ wpc' # wpc /\ raised' = raised

(* C14 amended: while the result of a successful detection is published,
   each of the next max_stable_skip eligible frames is skipped without a
   detector invocation and leaves the published result as it is, and the
   frame after them invokes the detector: a detection and the two frames
   after it make one invocation and two skipped cycles, the three frames
   after a detection three skipped cycles. *)
C14_SkipsAfterDetection ==
    /\ [][wpc = "publish_cs" /\ wpc' # wpc =>
            /\ stable_frames' = 0
            /\ previous_landmarks' = last_hand_landmarks'.landmarks]_vars
    /\ [][Decides /\ last_hand_landmarks # None =>
            IF stable_frames < max_stable_skip THEN wpc' = "stable"
                                               ELSE wpc' = "prep"]_vars
    /\ [][Compared /\ last_hand_landmarks # None =>
            /\ wpc' = "loop"
            /\ stable_frames' = stable_frames + 1
            /\ last_hand_landmarks' = lastPub]_vars
    /\ [](stable_frames > 0 /\ last_hand_landmarks # None =>
            /\ last_hand_landmarks = lastPub
            /\ lastPub.landmarks.det + stable_frames <= framesRead)

(* a detection, three skipped frames, and the detector about to be invoked
   for the fifth frame *)
C14_Witness ==
    /\ stable_frames = max_stable_skip
    /\ wpc = "prep"
    /\ lastPub # None /\ last_hand_landmarks = lastPub
    /\ lastPub.landmarks.det = 1 /\ wl.frame = [id |-> 5]

(* ===================== properties of a hand that is lost =============== *)

(* no landmark result is published and no ROI is kept *)
Cleared == last_hand_landmarks = None /\ current_roi = None

(* C15: once a tracked hand has left the scene for good, the published
   result and the ROI are cleared in the end, reads then return
   (Frame, None), and both stay cleared until a detection finds a hand. *)
WouldRead ==
    [frame |-> CopyFrame(latest_frame),
     lm |-> ReadLandmarks(last_hand_landmarks, clock, last_hand_seen_time)]

C15_LostHandIsCleared ==
    /\ (scene = "empty" /\ lastPub # None /\ clock <= T0 + tickMs)
            ~> (Cleared /\ WouldRead.frame # None /\ WouldRead.lm = None)
    /\ [][Cleared /\ ~Cleared' => wl.result # None /\ wl.result.hand]_vars

(* the worker has cleared the result and the ROI of a hand that left, after
   skipping three frames on the strength of the stale result *)
C15_Witness ==
    /\ scene = "empty" /\ lastPub # None /\ Cleared
    /\ WouldRead.frame # None /\ WouldRead.lm = None
    /\ cfg.enable_roi_tracking /\ wpc = "loop"
    /\ wl.now > last_hand_seen_time + hand_presence_timeout + 3 * tickMs

(***************************************************************************)
(* The region of interest: _calculate_roi_from_landmarks, _extract_roi and *)
(* _adjust_landmarks_from_roi, called on their own.  A normalised          *)
(* coordinate is a number of CoordDen-ths, from CoordOver of them below 0  *)
(* to CoordOver of them above 1; a frame has 1 to MaxSide pixels a side.   *)
(***************************************************************************)
MaxSide == 6
CoordDen == 2
CoordOver == 1
roi_expand_tenths == 3

Coords == (0 - CoordOver)..(CoordDen + CoordOver)
Points == [x : Coords, y : Coords]
LandmarkSets == {{p, q} : p, q \in Points}
Shapes == [h : 1..MaxSide, w : 1..MaxSide]

Larger(a, b) == IF a >= b THEN a ELSE b
Smaller(a, b) == IF a <= b THEN a ELSE b
SetMin(S) == CHOOSE m \in S : \A n \in S : m <= n
SetMax(S) == CHOOSE m \in S : \A n \in S : m >= n

(* int() of the quotient n / d, d > 0: Python truncates toward zero *)
IntOf(n, d) == IF n >= 0 THEN n \div d ELSE 0 - ((0 - n) \div d)

(* lines 433-434 *)
RoiOrigin(lo, expand) == Larger(0, lo - expand)

RoiSizeUnclamped(avail, wanted) == wanted

(* lines 435-436 *)
RoiSize(avail, wanted) == Smaller(avail, wanted)

(* lines 409-438 *)
CalculateRoiFromLandmarks(landmarks, frame_shape) ==
    LET h == frame_shape.h
        w == frame_shape.w
        x_coords == {p.x : p \in landmarks}
        y_coords == {p.y : p \in landmarks}
        min_x == IntOf(SetMin(x_coords) * w, CoordDen)
        max_x == IntOf(SetMax(x_coords) * w, CoordDen)
        min_y == IntOf(SetMin(y_coords) * h, CoordDen)
        max_y == IntOf(SetMax(y_coords) * h, CoordDen)
        width == max_x - min_x
        height == max_y - min_y
        expand_w == IntOf(width * roi_expand_tenths, 10)
        expand_h == IntOf(height * roi_expand_tenths, 10)
        roi_x == RoiOrigin(min_x, expand_w)
        roi_y == RoiOrigin(min_y, expand_h)
        roi_w == RoiSize(w - roi_x, width + 2 * expand_w)
        roi_h == RoiSize(h - roi_y, height + 2 * expand_h)
    IN  [x |-> roi_x, y |-> roi_y, w |-> roi_w, h |-> roi_h]

(* _calculate_roi_from_landmarks on any landmark set and any frame size *)
RoiInit ==
    /\ CoreInit
    /\ cfg.enable_roi_tracking
    /\ Surroundings("flaky", MaxFrames, TickMs, MaxTicks, TRUE, TRUE)
    /\ MetricsInit
    /\ args \in [landmarks : LandmarkSets, frame_shape : Shapes]
    /\ value = None
    /\ kf = None
    /\ calls = 0
    /\ NoApp

CalculateRoi ==
    /\ value = None
    /\ value' = CalculateRoiFromLandmarks(args.landmarks, args.frame_shape)
    /\ UNCHANGED <<coreVars, device, frameLimit, tickMs, tickLimit, scene,
                   faults, filterpy, perfVars, args, kf, calls, appVars>>

RoiNext == CalculateRoi

RoiSpec == RoiInit /\ [][RoiNext]_vars

(* C16: whatever the landmark set, coordinates outside [0, 1] included, and
   whatever the frame size, the region (x, y, w, h) that
   _calculate_roi_from_landmarks returns has 0 <= x, 0 <= y,
   x + w <= frame width and y + h <= frame height. *)
C16_RoiWithinFrame ==
    value # None =>
        /\ 0 <= value.x
        /\ 0 <= value.y
        /\ value.x + value.w <= args.frame_shape.w
        /\ value.y + value.h <= args.frame_shape.h

(* a landmark set that reaches past the frame on both sides; both clamps act *)
C16_Witness ==
    /\ value # None
    /\ \E p \in args.landmarks : p.x < 0 /\ p.y < 0
    /\ \E p \in args.landmarks : p.x > CoordDen /\ p.y > CoordDen
    /\ args.frame_shape.w = MaxSide
    /\ value.x = 0 /\ value.w = MaxSide
    /\ value.y = 0 /\ value.h = args.frame_shape.h

(***************************************************************************)
(* The round trip through a crop.  A position is a whole number of pixels  *)
(* from the frame's left or upper edge; a normalised coordinate is the     *)
(* fraction n / d.  The detector, given an image, reports a hand at the    *)
(* position where it is in that image, normalised by the image's size.     *)
(***************************************************************************)
MaxCropSide == 3

CropShapes == [h : 1..MaxCropSide, w : 1..MaxCropSide]
Rois == [x : (0 - 1)..MaxCropSide, y : (0 - 1)..MaxCropSide,
         w : 0..(MaxCropSide + 1), h : 0..(MaxCropSide + 1)] \cup {None}
Pixels == [x : 0..MaxCropSide, y : 0..MaxCropSide]

Fraction(a, b) == [n |-> a, d |-> b]
SameFraction(f, g) == f.n * g.d = g.n * f.d

(* lines 393-407: the part of the frame that frame[y:y+h, x:x+w] is *)
ExtractRoi(roi, frame_shape) ==
    IF roi = None
      THEN [x |-> 0, y |-> 0, w |-> frame_shape.w, h |-> frame_shape.h]
      ELSE LET h_frame == frame_shape.h
               w_frame == frame_shape.w
               x == Larger(0, Smaller(roi.x, w_frame - 1))
               y == Larger(0, Smaller(roi.y, h_frame - 1))
               w == Smaller(roi.w, w_frame - x)
               h == Smaller(roi.h, h_frame - y)
           IN  [x |-> x, y |-> y, w |-> w, h |-> h]

InImage(p, image) ==
    /\ image.w > 0 /\ image.h > 0
    /\ image.x <= p.x /\ p.x <= image.x + image.w
    /\ image.y <= p.y /\ p.y <= image.y + image.h

(* the detector's landmark for a hand at p in the frame, given the image *)
Normalised(p, image) ==
    [x |-> Fraction(p.x - image.x, image.w),
     y |-> Fraction(p.y - image.y, image.h)]

AdjustAxisNoOrigin(c, origin, size, full) == Fraction(c.n * size, c.d * full)

(* lines 448 and 449: (c * size + origin) / full *)
AdjustAxis(c, origin, size, full) ==
    Fraction(c.n * size + origin * c.d, c.d * full)

(* lines 440-451; cap.get(cv2.CAP_PROP_FRAME_WIDTH) and _HEIGHT are the size
   of the frames the capture delivers *)
AdjustLandmarksFromRoi(landmarks, roi, frame_shape) ==
    IF roi = None
      THEN landmarks
      ELSE [x |-> AdjustAxis(landmarks.x, roi.x, roi.w, frame_shape.w),
            y |-> AdjustAxis(landmarks.y, roi.y, roi.h, frame_shape.h)]

(* a hand at any position of a frame of any size, with any region of
   interest stored in current_roi *)
CropInit ==
    /\ CoreInit
    /\ cfg.enable_roi_tracking
    /\ Surroundings("flaky", MaxFrames, TickMs, MaxTicks, TRUE, TRUE)
    /\ MetricsInit
    /\ args \in {a \in [roi : Rois, frame_shape : CropShapes, hand : Pixels] :
                    a.hand.x <= a.frame_shape.w /\ a.hand.y <= a.frame_shape.h}
    /\ value = None
    /\ kf = None
    /\ calls = 0
    /\ NoApp

(* lines 274 and 302-312: the crop, the detection in it, the mapping back;
   no landmarks when the hand is not in the crop *)
DetectInRoi ==
    /\ value = None
    /\ LET image == ExtractRoi(args.roi, args.frame_shape)
       IN  value' =
             [image |-> image,
              landmarks |->
                IF InImage(args.hand, image)
                  THEN AdjustLandmarksFromRoi(Normalised(args.hand, image),
                                              args.roi, args.frame_shape)
                  ELSE None]
    /\ UNCHANGED <<coreVars, device, frameLimit, tickMs, tickLimit, scene,
                   faults, filterpy, perfVars, args, kf, calls, appVars>>

CropNext == DetectInRoi

CropSpec == CropInit /\ [][CropNext]_vars

RoiInsideFrame(roi, frame_shape) ==
    /\ roi # None
    /\ 0 <= roi.x /\ roi.w >= 1 /\ roi.x + roi.w <= frame_shape.w
    /\ 0 <= roi.y /\ roi.h >= 1 /\ roi.y + roi.h <= frame_shape.h

(* C17: for a region of interest that lies inside the frame, the crop that
   _extract_roi takes has exactly the origin and the size that
   _adjust_landmarks_from_roi uses, and a landmark expressed in the crop's
   coordinates and mapped back is the landmark's frame-normalised
   coordinate again: x' = (x * roi_w + roi_x) / frame_width = px / width,
   and the same for y. *)
C17_RoundTripThroughCrop ==
    (value # None /\ RoiInsideFrame(args.roi, args.frame_shape)) =>
        /\ value.image = args.roi
        /\ value.landmarks # None =>
             /\ SameFraction(value.landmarks.x,
                             Fraction(args.hand.x, args.frame_shape.w))
             /\ SameFraction(value.landmarks.y,
                             Fraction(args.hand.y, args.frame_shape.h))

(* a hand inside a region that has a non-zero origin and is smaller than the
   frame, mapped back *)
C17_Witness ==
    /\ value # None /\ value.landmarks # None
    /\ RoiInsideFrame(args.roi, args.frame_shape)
    /\ args.roi.x > 0 /\ args.roi.y > 0
    /\ args.roi.x + args.roi.w < args.frame_shape.w
    /\ args.roi.x < args.hand.x /\ args.roi.y < args.hand.y
    /\ value.landmarks.x.n = args.hand.x * args.roi.w

(***************************************************************************)
(* KalmanLandmarkFilter, used on its own.  The library's arithmetic is not *)
(* computed: a coordinate is [init, fed, P], the position estimate of a    *)
(* filter that was set to init (velocity 0) when its covariance had gone   *)
(* through P predict/update steps and that has filtered the measurements   *)
(* fed since; with nothing fed it is the number init itself.               *)
(***************************************************************************)
MaxCalls == 4

Exact(c) == [init |-> c, fed |-> <<>>, P |-> 0]
Measured(c) ==
    [i \in 1..num_landmarks |-> [x |-> Exact(c), y |-> Exact(c + i), z |-> i]]
Arrays == {Measured(c) : c \in Coords}

(* lines 45-59: a filter as constructed; x is zero, P has gone through no step *)
NewFilter == [x0 |-> <<0, 0, 0, 0>>, fed |-> <<>>, P0 |-> 0, P |-> 0]

(* lines 36-60 *)
NewKalmanLandmarkFilter(lib) ==
    [filters |-> IF lib THEN [i \in 1..num_landmarks |-> NewFilter] ELSE <<>>,
     initialized |-> FALSE]

(* kf.x[0] and kf.x[2] *)
StateX(f) ==
    IF f.fed = <<>> THEN Exact(f.x0[1])
    ELSE [init |-> f.x0[1], fed |-> [k \in 1..Len(f.fed) |-> f.fed[k][1]],
          P |-> f.P0]
StateY(f) ==
    IF f.fed = <<>> THEN Exact(f.x0[3])
    ELSE [init |-> f.x0[3], fed |-> [k \in 1..Len(f.fed) |-> f.fed[k][2]],
          P |-> f.P0]

(* lines 70-71: kf.x = [x, 0, y, 0]; the covariance stays what it is *)
SetState(f, p) ==
    [f EXCEPT !.x0 = <<p.x.init, 0, p.y.init, 0>>, !.fed = <<>>, !.P0 = f.P]

(* lines 79-81: kf.predict(); kf.update(z) *)
PredictUpdate(f, z) == [f EXCEPT !.fed = Append(@, z), !.P = @ + 1]

(* lines 62-87: the filter object after the call and the array returned *)
KalmanUpdate(k, landmarks) ==
    IF k.filters = <<>>
      THEN [kf |-> k, ret |-> landmarks]
    ELSE IF ~k.initialized
      THEN [kf |-> [filters |-> [i \in DOMAIN k.filters |->
                                   SetState(k.filters[i], landmarks[i])],
                    initialized |-> TRUE],
            ret |-> landmarks]
    ELSE LET fs == [i \in DOMAIN k.filters |->
                      PredictUpdate(k.filters[i],
                                    <<landmarks[i].x.init, landmarks[i].y.init>>)]
         IN  [kf |-> [k EXCEPT !.filters = fs],
              ret |-> [i \in DOMAIN landmarks |->
                         [landmarks[i] EXCEPT !.x = StateX(fs[i]),
                                              !.y = StateY(fs[i])]]]

KalmanResetNothing(k) == k

(* lines 89-91 *)
KalmanReset(k) == [k EXCEPT !.initialized = FALSE]

K_Update(landmarks) ==
    /\ kf # None
    /\ calls < MaxCalls
    /\ LET r == KalmanUpdate(kf, landmarks)
       IN  /\ kf' = r.kf
           /\ value' = r.ret
    /\ args' = [fn |-> "update", landmarks |-> landmarks]
    /\ calls' = calls + 1
    /\ UNCHANGED <<coreVars, device, frameLimit, tickMs, tickLimit, scene,
                   faults, filterpy, perfVars, appVars>>

K_Reset ==
    /\ kf # None
    /\ calls < MaxCalls
    /\ kf' = KalmanReset(kf)
    /\ value' = <<>>
    /\ args' = [fn |-> "reset", landmarks |-> <<>>]
    /\ calls' = calls + 1
    /\ UNCHANGED <<coreVars, device, frameLimit, tickMs, tickLimit, scene,
                   faults, filterpy, perfVars, appVars>>

(* a filter object constructed with or without the library, then any calls;
   what reset() takes and returns is written as the empty array *)
KalmanInit ==
    /\ CoreInit
    /\ cfg.enable_kalman_filter
    /\ \E lib \in BOOLEAN :
          Surroundings("flaky", MaxFrames, TickMs, MaxTicks, TRUE, lib)
    /\ MetricsInit
    /\ args = None
    /\ value = <<>>
    /\ kf = NewKalmanLandmarkFilter(filterpy)
    /\ calls = 0
    /\ NoApp

KalmanNext == K_Reset \/ \E landmarks \in Arrays : K_Update(landmarks)

KalmanSpec == KalmanInit /\ [][KalmanNext]_vars

IsUpdate == args' # None /\ args'.fn = "update" /\ calls' = calls + 1
FirstCall == args = None \/ args.fn = "reset"

(* C18: on a filter that was just constructed or reset, the first update()
   returns its input unchanged and sets every landmark's state to
   (x, 0, y, 0); an update() that follows another update() returns the
   positions of the states after predict() and update(z). *)
C18_FirstUpdateInitialises ==
    [][(IsUpdate /\ kf.filters # <<>>) =>
         IF FirstCall
           THEN /\ value' = args'.landmarks
                /\ kf'.initialized
                /\ \A i \in DOMAIN kf'.filters :
                      /\ kf'.filters[i].x0
                           = <<args'.landmarks[i].x.init, 0,
                               args'.landmarks[i].y.init, 0>>
                      /\ kf'.filters[i].fed = <<>>
           ELSE /\ \A i \in DOMAIN kf'.filters :
                      /\ kf'.filters[i].fed
                           = Append(kf.filters[i].fed,
                                    <<args'.landmarks[i].x.init,
                                      args'.landmarks[i].y.init>>)
                      /\ value'[i].x = StateX(kf'.filters[i])
                      /\ value'[i].y = StateY(kf'.filters[i])
                      /\ value'[i].z = args'.landmarks[i].z
                /\ value' # args'.landmarks]_vars

(* the first update() after a reset() that followed a filtering update() *)
C18_Witness ==
    /\ calls = MaxCalls /\ args.fn = "update"
    /\ kf.filters # <<>> /\ kf.initialized
    /\ kf.filters[1].P > 0 /\ kf.filters[1].fed = <<>>
    /\ value = args.landmarks
    /\ kf.filters[1].x0 = <<args.landmarks[1].x.init, 0,
                            args.landmarks[1].y.init, 0>>

(***************************************************************************)
(* Without the filter library: a tracker constructed with                  *)
(* enable_kalman_filter = True and a KalmanLandmarkFilter constructed on   *)
(* its own; the camera may fail, the image operations and the detector do *)
(* not raise.                                                              *)
(***************************************************************************)
NoFilterInit ==
    /\ CoreInit
    /\ cfg.enable_kalman_filter
    /\ Surroundings("flaky", MaxFrames, TickMs, MaxTicks, FALSE, FALSE)
    /\ MetricsInit
    /\ args = None
    /\ value = <<>>
    /\ kf = NewKalmanLandmarkFilter(filterpy)
    /\ calls = 0
    /\ NoApp

NoFilterNext ==
    \/ Tick
    \/ Worker
    \/ K_Reset
    \/ \E landmarks \in Arrays : K_Update(landmarks)

NoFilterSpec == NoFilterInit /\ [][NoFilterNext]_vars

(* C19: with the filter library absent, update() returns its input
   unmodified on every call, and a tracker constructed with
   enable_kalman_filter = True runs without a smoother: every landmark
   result it publishes is the detector's output as mapped, and neither the
   construction nor the landmark step of any cycle raises. *)
C19_NoLibraryNoSmoothing ==
    /\ kf.filters = <<>> /\ ~kf.initialized
    /\ (args # None /\ args.fn = "update") => value = args.landmarks
    /\ ~kalman_initialized
    /\ last_hand_landmarks # None => last_hand_landmarks.landmarks.raw
    /\ lastPub # None => lastPub.landmarks.raw
    /\ wl.landmarks # None => wl.landmarks.raw
    /\ raised # "post" /\ wpc # "dead"

(* the second result published, which a smoother would have filtered, and
   the last of the calls to update() *)
C19_Witness ==
    /\ cfg.enable_kalman_filter /\ ~filterpy
    /\ lastPub # None /\ lastPub.landmarks.det = MaxFrames
    /\ lastPub.landmarks.raw
    /\ calls = MaxCalls /\ args.fn = "update" /\ value = args.landmarks

(***************************************************************************)
(* _is_hand_stable, called on its own.  The published landmarks and the    *)
(* motion baseline are arrays of 21 points, or None, written as the empty  *)
(* array; coordinates are CoordDen-ths as above, the motion threshold a    *)
(* positive number of ThresholdDen-ths.                                    *)
(***************************************************************************)
MaxThreshold == 3
ThresholdDen == 100

(* a hand at rest at the origin but for its first n landmarks, which are at p *)
Hand(p, n) ==
    [i \in 1..num_landmarks |-> IF i <= n THEN p ELSE [x |-> 0, y |-> 0]]
NoArray == <<>>
Hands == {Hand(p, n) : p \in Points, n \in {1, num_landmarks}} \cup {NoArray}
Thresholds == 1..MaxThreshold

Abs(a) == IF a >= 0 THEN a ELSE 0 - a

(* lines 388-389: the sum of |current - previous| and the number of elements
   np.mean divides it by *)
MotionSum(current, prev) ==
    Sum([i \in 1..num_landmarks |->
           Abs(current[i].x - prev[i].x) + Abs(current[i].y - prev[i].y)])
MotionCount == 2 * num_landmarks

MotionAbove(total, count, threshold) ==
    total * ThresholdDen > threshold * CoordDen * count

(* line 391: mean_motion < self.motion_threshold, with mean_motion
   total / (CoordDen * count) and the threshold threshold / ThresholdDen *)
MotionBelow(total, count, threshold) ==
    total * ThresholdDen < threshold * CoordDen * count

(* lines 379-391 *)
IsHandStable(prev, published, threshold) ==
    IF prev = NoArray \/ published = NoArray
      THEN FALSE
      ELSE MotionBelow(MotionSum(published, prev), MotionCount, threshold)

StableInit ==
    /\ CoreInit
    /\ cfg.motion_detection
    /\ Surroundings("flaky", MaxFrames, TickMs, MaxTicks, TRUE, TRUE)
    /\ MetricsInit
    /\ args \in [previous_landmarks : Hands, last_hand_landmarks : Hands,
                 motion_threshold : Thresholds]
    /\ value = None
    /\ kf = None
    /\ calls = 0
    /\ NoApp

StableCall ==
    /\ value = None
    /\ value' = [stable |-> IsHandStable(args.previous_landmarks,
                                         args.last_hand_landmarks,
                                         args.motion_threshold)]
    /\ UNCHANGED <<coreVars, device, frameLimit, tickMs, tickLimit, scene,
                   faults, filterpy, perfVars, args, kf, calls, appVars>>

StableNext == StableCall

StableSpec == StableInit /\ [][StableNext]_vars

(* C20: when the published landmark set and the motion baseline are the same
   set of points, _is_hand_stable() returns true, whatever the (positive)
   motion threshold. *)
C20_IdenticalIsStable ==
    (/\ value # None
     /\ args.previous_landmarks # NoArray
     /\ args.last_hand_landmarks = args.previous_landmarks) => value.stable

(* identical sets away from the origin, at the smallest threshold, where one
   landmark moved by one grid step is motion *)
C20_Witness ==
    /\ value # None /\ value.stable
    /\ args.previous_landmarks # NoArray
    /\ args.last_hand_landmarks = args.previous_landmarks
    /\ args.previous_landmarks[1].x = CoordDen
    /\ args.motion_threshold = 1
    /\ ~IsHandStable(Hand([x |-> 0, y |-> 0], 1), Hand([x |-> 1, y |-> 0], 1),
                     args.motion_threshold)

(***************************************************************************)
(* The tracker with ROI tracking, smoothing and motion detection all       *)
(* switched off, with and without the GPU delegate and the mirroring: the  *)
(* worker and the clock, on a stream of frames one frame period apart.     *)
(***************************************************************************)
PlainConfigs ==
    {Config(flip, FALSE, FALSE, FALSE, gpu) : flip \in BOOLEAN, gpu \in BOOLEAN}

PlainInit ==
    /\ cfg \in PlainConfigs
    /\ Constructed
    /\ Surroundings("flaky", MaxStreamFrames, FrameMs, MaxFrameTicks, TRUE, TRUE)
    /\ MetricsInit
    /\ NoCall
    /\ NoApp

(* the worker but for the comparison of _is_hand_stable, which line 258 does
   not reach with motion_detection off *)
PlainNext ==
    \/ Tick
    \/ W_Loop \/ W_Open \/ W_Read \/ W_Flip \/ W_Acquire \/ W_PublishFrame
    \/ W_Gate \/ W_Motion \/ W_Prep \/ W_Detect \/ W_Post
    \/ W_PublishLandmarks \/ W_Clear \/ W_Except

PlainSpec == PlainInit /\ [][PlainNext]_vars

(* C21, as claimed: with the three features off every captured frame goes to
   the detector, as a full frame. *)
C21_EveryFrameDetected ==
    [][wpc' # wpc =>
         /\ wpc = "gate" => wpc' = "motion"
         /\ wpc = "motion" => wpc' = "prep"
         /\ (wpc = "prep" /\ wpc' = "detect") => ~wl'.use_roi]_vars

(* C21: with the three features off every captured frame that is eligible --
   the minimum detection interval has elapsed and the frame-skip counter
   comes round to 0, which it does for every frame with the GPU delegate and
   for every second one without -- goes to the detector as a full frame;
   no frame is skipped for stability, no ROI is kept, nothing is smoothed. *)
C21_EveryEligibleFrameDetected ==
    /\ [](/\ stable_frames = 0 /\ frames_since_full_detection = 0
          /\ current_roi = None /\ ~kalman_initialized
          /\ ~wl.use_roi /\ wpc # "stable"
          /\ lastPub # None => lastPub.landmarks.raw /\ lastPub.roi = None)
    /\ [][wpc' # wpc =>
            /\ wpc = "gate" =>
                 (wpc' = "motion"
                    <=> /\ GateOpen(clock, last_detection_time)
                        /\ \/ cfg.frame_skip_interval = 1
                           \/ frame_skip_count = cfg.frame_skip_interval - 1)
            /\ wpc = "motion" => wpc' = "prep"
            /\ wpc = "prep" => wpc' = "detect" \/ raised' = "prep"]_vars

(* without the GPU delegate: the second eligible frame at the detector, the
   first having been passed over by the frame-skip counter *)
C21_Witness ==
    /\ cfg.frame_skip_interval = 2 /\ ~cfg.motion_detection
    /\ wpc = "detect" /\ ~wl.use_roi
    /\ frame_skip_count = 0 /\ wl.frame = [id |-> 2]
    /\ last_detection_time = T0 /\ wl.now > T0

(* ================= properties of the stability skips =================== *)

(* C22: stable_frames stays within 0..max_stable_skip; a frame is skipped
   for stability only while fewer than max_stable_skip frames have been
   skipped in a row, and the eligible frame that finds the budget used up
   goes on to the detector (unless preparing the image raises) with
   stable_frames back at 0. *)
C22_SkipBudget ==
    /\ [](0 <= stable_frames /\ stable_frames <= max_stable_skip)
    /\ [][wpc' # wpc =>
            /\ (wpc = "motion" /\ stable_frames = max_stable_skip)
                  => wpc' = "prep"
            /\ stable_frames' > stable_frames
                  => /\ wpc = "stable" /\ wpc' = "loop"
                     /\ stable_frames < max_stable_skip
                     /\ stable_frames' = stable_frames + 1
            /\ wpc = "prep"
                  => /\ stable_frames' = 0
                     /\ wpc' = "detect" \/ raised' = "prep"]_vars

(* the detector invoked for the frame that follows three skipped ones *)
C22_Witness ==
    /\ wpc = "detect" /\ stable_frames = 0
    /\ lastPub # None /\ lastPub.landmarks.det = 1
    /\ wl.frame = [id |-> max_stable_skip + 2]
    /\ frames_since_full_detection = 1

(* C23: while the worker is in a run of stability skips (stable_frames > 0),
   every read returns the newest frame together with the landmark result of
   the detection the run started from: no read reports that there is no
   hand. *)
C23_SkipsKeepResult ==
    [][\A r \in Readers :
         (rpc[r] = "idle" /\ rpc'[r] = "cs" /\ stable_frames > 0) =>
            /\ ret'[r].frame = latest_frame
            /\ ret'[r].lm # None
            /\ ret'[r].lm = lastPub]_vars

(* C24: with motion detection on, a cycle whose detector invocation returned
   no hand ends with the stability state cleared: no motion baseline
   (previous_landmarks is None) and stable_frames = 0, so that the next
   eligible frame cannot be skipped for stability. *)
C24_MissClearsStability ==
    [][(/\ cfg.motion_detection
        /\ wpc \in {"post", "clear_cs"}
        /\ ~wl.result.hand
        /\ wpc' = "loop") =>
           /\ previous_landmarks' = None
           /\ stable_frames' = 0]_vars

(***************************************************************************)
(* A long run of detections: the accelerated configuration (no frame       *)
(* skipping) with ROI tracking, smoothing and motion detection on or off,  *)
(* a camera that is up, a hand that may be found or missed at every        *)
(* invocation, no faults, the worker and the clock, over MaxRunTicks frame *)
(* periods.                                                                *)
(***************************************************************************)
RunConfigs ==
    {Config(FALSE, roi, kalman, motion, TRUE) :
        roi \in BOOLEAN, kalman \in BOOLEAN, motion \in BOOLEAN}

RunInit ==
    /\ cfg \in RunConfigs
    /\ Constructed
    /\ Surroundings("up", MaxFrames, FrameMs, MaxRunTicks, FALSE, TRUE)
    /\ MetricsInit
    /\ NoCall
    /\ NoApp

(* a capture cycle is short against the frame period: the clock advances
   while the worker waits for the minimum detection interval to pass *)
RunTick ==
    /\ ~GateOpen(clock, last_detection_time)
    /\ Tick

RunNext == RunTick \/ WorkerBody

RunSpec == RunInit /\ [][RunNext]_vars

(* C25: frames_since_full_detection counts the detector invocations on an ROI
   crop since the last full-frame one: it changes only when an invocation is
   prepared, by +1 for an ROI invocation and to 0 for a full-frame one, and
   stays within 0..full_detection_interval; an invocation prepared when the
   count has reached the end of the interval is a full-frame one, and so is
   every invocation prepared without an ROI or with ROI tracking disabled. *)
C25_PeriodicFullFrame ==
    /\ [](/\ 0 <= frames_since_full_detection
          /\ frames_since_full_detection <= full_detection_interval)
    /\ [][frames_since_full_detection' # frames_since_full_detection
             => wpc = "prep"]_vars
    /\ [][(wpc = "prep" /\ wpc' = "detect") =>
            /\ wl'.use_roi =>
                 /\ frames_since_full_detection' = frames_since_full_detection + 1
                 /\ frames_since_full_detection' <= full_detection_interval
            /\ ~wl'.use_roi => frames_since_full_detection' = 0
            /\ frames_since_full_detection >= full_detection_interval - 1
                 => ~wl'.use_roi
            /\ (current_roi = None \/ ~cfg.enable_roi_tracking)
                 => ~wl'.use_roi]_vars

(* the full-frame invocation that ends a run of ROI invocations, with
   stability skips between the invocations: there is an ROI and ROI tracking
   is on, and yet the whole frame goes to the detector *)
C25_Witness ==
    /\ wpc = "detect"
    /\ cfg.enable_roi_tracking
    /\ cfg.motion_detection
    /\ current_roi # None
    /\ ~wl.use_roi
    /\ frames_since_full_detection = 0
    /\ clock >= T0 + (full_detection_interval - 1) * FrameMs

(* C26: a cycle whose detector invocation returned no hand.  If the cycle's
   timestamp is more than hand_presence_timeout past last_hand_seen_time, the
   worker goes on, in that cycle, to take the lock and ends the cycle with
   the published result, the ROI and the motion baseline all None and the
   smoother reset; otherwise it ends the cycle at once with the four of them
   unchanged. *)
C26_MissClearsAfterTimeout ==
    /\ [][(wpc = "post" /\ wpc' # wpc /\ ~wl.result.hand) =>
            IF wl.now - last_hand_seen_time > hand_presence_timeout
              THEN /\ wpc' = "clear_acq"
                   /\ wl' = wl
              ELSE /\ wpc' = "loop"
                   /\ UNCHANGED <<last_hand_landmarks, current_roi,
                                  kalman_initialized, previous_landmarks>>]_vars
    /\ [][(wpc = "clear_acq" /\ wpc' # wpc) => (wpc' = "clear_cs" /\ wl' = wl)]_vars
    /\ [][(wpc = "clear_cs" /\ wpc' # wpc) =>
            /\ wpc' = "loop"
            /\ last_hand_landmarks' = None
            /\ current_roi' = None
            /\ ~kalman_initialized'
            /\ previous_landmarks' = None]_vars
    /\ [](wpc \in {"clear_acq", "clear_cs"} =>
            /\ ~wl.result.hand
            /\ wl.now - last_hand_seen_time > hand_presence_timeout)

(* a tracked hand has just been declared lost: every feature is on, a result
   was published, and the miss came more than the timeout after it *)
C26_Witness ==
    /\ cfg.enable_roi_tracking /\ cfg.enable_kalman_filter /\ cfg.motion_detection
    /\ wpc = "loop"
    /\ lastPub # None
    /\ lastPub.roi # None
    /\ last_hand_landmarks = None
    /\ current_roi = None
    /\ ~kalman_initialized
    /\ previous_landmarks = None
    /\ last_detection_time - last_hand_seen_time > hand_presence_timeout

(* C27: whenever a worker cycle starts with no landmark result published
   there is no ROI either, and whenever the detector is about to be invoked
   on an ROI crop a landmark result is published. *)
C27_NoRoiWithoutResult ==
    /\ (wpc = "loop" /\ last_hand_landmarks = None) => current_roi = None
    /\ (wpc = "detect" /\ wl.use_roi) => last_hand_landmarks # None

(***************************************************************************)
(* A consumer polling the tracker: any configuration, a camera that is up, *)
(* a hand that may be found or missed, no faults; the worker, the clock    *)
(* and one reader.                                                         *)
(***************************************************************************)
PollInit ==
    /\ CoreInit
    /\ Surroundings("up", MaxFrames, TickMs, MaxTicks, FALSE, TRUE)
    /\ MetricsInit
    /\ NoCall
    /\ NoApp

PollNext ==
    \/ Tick
    \/ WorkerBody
    \/ R_Read("r1") \/ R_Return("r1")

PollSpec == PollInit /\ [][PollNext]_vars

(* C28: a successful detection made after the published landmark result has
   become None (a result had been published, and none is now) yields the
   detector's output unsmoothed, the smoother starting afresh from it; one
   made while a result is published, with smoothing on, finds the smoother
   initialised, keeps it so, and yields smoothed landmarks. *)
C28_FreshAfterLoss ==
    [][(wpc = "post" /\ wpc' = "publish_acq") =>
         /\ (lastPub # None /\ last_hand_landmarks = None) => wl'.landmarks.raw
         /\ (last_hand_landmarks # None /\ cfg.enable_kalman_filter) =>
               /\ kalman_initialized /\ kalman_initialized'
               /\ ~wl'.landmarks.raw]_vars

(***************************************************************************)
(* The worker feeding the performance controller: every feature off with   *)
(* and without the GPU delegate (frame skipping without), and motion       *)
(* detection alone with it, each with adaptive_performance on and off; a   *)
(* camera that is up, a detector that may find or miss the hand or fail,   *)
(* the worker and the clock, which advances by tickMs while the worker     *)
(* waits for the minimum detection interval.                               *)
(***************************************************************************)
AdaptConfigs ==
    {[c EXCEPT !.adaptive_performance = a] :
        c \in {Config(FALSE, FALSE, FALSE, FALSE, TRUE),
               Config(FALSE, FALSE, FALSE, FALSE, FALSE),
               Config(FALSE, FALSE, FALSE, TRUE, TRUE)},
        a \in BOOLEAN}

AdaptInit ==
    /\ cfg \in AdaptConfigs
    /\ Constructed
    /\ Surroundings("up", MaxFrames, TickMs, MaxAdaptTicks, TRUE, TRUE)
    /\ MetricsInit
    /\ NoCall
    /\ NoApp

AdaptNext == RunTick \/ Worker

AdaptSpec == AdaptInit /\ [][AdaptNext]_vars

(* C29: with adaptive_performance on, every step that ends a detector
   invocation appends one duration to the window, the oldest sample going
   when there are more than max_detection_samples, and no other step touches
   the window, which never holds more than max_detection_samples; with
   adaptive_performance off neither the window nor detection_scale ever
   changes. *)
C29_EveryInvocationSampled ==
    /\ [](Len(detection_times) <= max_detection_samples)
    /\ [][(wpc = "detect" /\ wpc' # wpc /\ cfg.adaptive_performance) =>
            \E d \in Durations :
               LET appended == Append(detection_times, d)
               IN  detection_times' =
                      IF Len(appended) > max_detection_samples
                        THEN Tail(appended) ELSE appended]_vars
    /\ [][wpc # "detect" => detection_times' = detection_times]_vars
    /\ [][~cfg.adaptive_performance =>
            UNCHANGED <<detection_times, detection_scale>>]_vars

(* C30: last_adjustment_time is the time of the last evaluation (of the
   construction before the first): it never lies ahead of the clock, and it
   moves only to the current time, in a call made more than adjust_interval
   after it that leaves at least min_detection_samples samples in the
   window.  detection_scale changes only in such a call, and to a value no
   further than one step of 0.1 from the old one.  Hence any two changes of
   the scale are more than adjust_interval apart. *)
C30_ChangesApart ==
    /\ [](last_adjustment_time <= clock)
    /\ [][last_adjustment_time' # last_adjustment_time =>
            /\ clock - last_adjustment_time > adjust_interval
            /\ Len(detection_times') >= min_detection_samples
            /\ last_adjustment_time' = clock]_vars
    /\ [][detection_scale' # detection_scale =>
            /\ last_adjustment_time' # last_adjustment_time
            /\ Leq(Sub01(detection_scale), detection_scale')
            /\ Leq(detection_scale', Add01(detection_scale))]_vars

(* the scale has been changed twice, two steps down from its initial value *)
C30_Witness ==
    /\ detection_scale.tenths = cfg.detection_scale.tenths - 2
    /\ last_adjustment_time > T0 + 2 * adjust_interval
    /\ Len(detection_times) >= min_detection_samples

(* The average rate of the window against the target: avg_fps is
   Len * PerTarget / Sum times the target, and the target itself when the
   durations sum to 0. *)
C31_Below(times) == Sum(times) > 0 /\ 10 * PerTarget * Len(times) < 8 * Sum(times)
C31_Above(times) == Sum(times) > 0 /\ 10 * PerTarget * Len(times) > 12 * Sum(times)

(* C31: at an evaluation the scale goes down only if avg_fps < 0.8 target_fps,
   up only if avg_fps > 1.2 target_fps, and stays as it is when avg_fps lies
   within the band, in the accelerated and the non-accelerated configuration
   alike. *)
C31_HysteresisBand ==
    [][last_adjustment_time' # last_adjustment_time =>
         /\ Less(detection_scale', detection_scale) => C31_Below(detection_times')
         /\ Less(detection_scale, detection_scale') => C31_Above(detection_times')
         /\ (~C31_Below(detection_times') /\ ~C31_Above(detection_times'))
               => detection_scale' = detection_scale]_vars

(* an evaluation just made on a window whose average rate is above the target
   and within the band: five half-speed samples among eleven *)
C31_Witness ==
    /\ last_adjustment_time = clock
    /\ clock > T0
    /\ Len(detection_times) = 11
    /\ Sum(detection_times) = 5 * HalfSpeed
    /\ detection_scale = cfg.detection_scale

(* C32: a frame goes on to the motion/detection decision only when the
   minimum detection interval has passed since _last_detection_time and the
   frame-skip counter has come round to 0; and every cycle that invoked the
   detector, the ones that ended in an exception included, ends with the gate
   shut for a frame taken less than the minimum interval after the cycle's
   timestamp, so that two invocations are at least the interval apart. *)
C32_InvocationsApart ==
    /\ [][(wpc = "gate" /\ wpc' = "motion") =>
            /\ clock - last_detection_time >= cfg.min_detection_interval
            /\ frame_skip_count' = 0
            /\ cfg.frame_skip_interval > 1 =>
                  frame_skip_count = cfg.frame_skip_interval - 1]_vars
    /\ [][(/\ wpc # "loop"
           /\ wpc' = "loop"
           /\ wl.result # None \/ raised = "detect") =>
            \A t \in wl.now .. wl.now + cfg.min_detection_interval - 1 :
               t - last_detection_time' < cfg.min_detection_interval]_vars

(* C33: a frame that has been read goes to the slot in the same cycle: the
   worker proceeds from the read over the mirroring and the lock to the
   assignment and only then to the gate, so at every later step of the cycle,
   whatever is decided about detection, the slot holds the cycle's frame; and
   with no reader at all every frame read does reach the slot, overwriting
   the one before it. *)
C33_FrameAlwaysPublished ==
    /\ [](wpc \in {"gate", "motion", "stable", "prep", "detect", "post",
                   "publish_acq", "publish_cs", "clear_acq", "clear_cs"}
             => latest_frame = wl.frame)
    /\ [][wpc' # wpc =>
            /\ wpc = "flip" => wpc' = "frame_acq"
            /\ wpc = "frame_acq" => wpc' = "frame_cs"
            /\ wpc = "frame_cs" => (wpc' = "gate" /\ latest_frame' = wl.frame)]_vars
    /\ (wpc = "flip") ~> (wpc = "gate" /\ latest_frame = wl.frame)

(* the second frame is in the slot although nobody ever read the first *)
C33_Witness ==
    /\ wpc = "gate"
    /\ latest_frame = [id |-> 2]
    /\ returned.frame = 0
    /\ \A r \in Readers : ret[r] = NoRet

(* C34: the worker holds the lock only at the assignment of the latest frame
   and at the assignment (or clearing) of the landmark result: it takes the
   lock right before one of them and the assignment gives it back, so that
   while the worker gates, checks stability, crops, resizes, detects, maps,
   filters or computes the ROI the lock is not the worker's. *)
C34_LockOnlyToAssign ==
    /\ [](lock = "worker" <=> wpc \in {"frame_cs", "publish_cs", "clear_cs"})
    /\ [][(lock = "worker" /\ wpc' # wpc) => lock' = "free"]_vars
    /\ [][(lock # "worker" /\ lock' = "worker") =>
             wpc \in {"frame_acq", "publish_acq", "clear_acq"}]_vars

(* a reader copies the snapshot out while the detector is running *)
C34_Witness ==
    /\ wpc = "detect"
    /\ \E r \in Readers : rpc[r] = "cs" /\ lock = r /\ ret[r].frame = wl.frame

(***************************************************************************)
(* vision/gesture_recognizer.py: GestureRecognizer.                        *)
(* A confidence is a whole number of ten-thousandths (0.75 is 7500); the   *)
(* factors and caps of _classify_gesture are hundredths and the base       *)
(* confidence of _calculate_gesture_confidence is a number of hundredths.  *)
(* The gesture id None is NoGesture.                                       *)
(***************************************************************************)
MaxRecognitions == 6
NoGesture == 0
required_landmarks == 21
smoothing_frames == 5

ConfidenceThresholds == {7500, 9000}

(* hands as _get_fingers_up (thumb, index, middle, ring, pinky) and
   _check_ok_touch see them *)
OkHand == [fingers_up |-> <<FALSE, FALSE, TRUE, TRUE, TRUE>>, touch_ok |-> TRUE]
PeaceHand == [fingers_up |-> <<FALSE, TRUE, TRUE, FALSE, FALSE>>, touch_ok |-> FALSE]
OtherHand == [fingers_up |-> <<FALSE, FALSE, TRUE, FALSE, FALSE>>, touch_ok |-> FALSE]

(* a landmark list handed to recognize(): the number of its points, the hand
   they show and the base confidence _calculate_gesture_confidence gives it
   (100 for a clear hand, 75 with one finger close to the threshold) *)
LandmarkList(points, hand, base_confidence) ==
    [points |-> points, hand |-> hand, base_confidence |-> base_confidence]

(* the lists tried: 21 points of a hand, an empty list and a list one point
   short *)
LandmarkLists ==
    { LandmarkList(required_landmarks, OkHand, 100),
      LandmarkList(required_landmarks, PeaceHand, 100),
      LandmarkList(required_landmarks, PeaceHand, 75),
      LandmarkList(required_landmarks, OtherHand, 100),
      LandmarkList(0, PeaceHand, 100),
      LandmarkList(required_landmarks - 1, PeaceHand, 100) }

GESTURE_NAMES ==
    [g \in {NoGesture, 1, 2, 4, 5, 6, 7, 10} |->
        CASE g = 1 -> "Peace" [] g = 2 -> "OK" [] g = 4 -> "HighFive"
          [] g = 5 -> "Fist" [] g = 6 -> "Point" [] g = 7 -> "Rock"
          [] g = 10 -> "ILoveYou" [] OTHER -> "None"]

GestureResult(gesture_id, gesture_name, confidence, is_valid) ==
    [gesture_id |-> gesture_id, gesture_name |-> gesture_name,
     confidence |-> confidence, is_valid |-> is_valid]

(* lines 60-77 *)
NewGestureRecognizer(confidence_threshold, enable_smoothing) ==
    [confidence_threshold |-> confidence_threshold,
     enable_smoothing |-> enable_smoothing,
     previous_gesture |-> NoGesture,
     consecutive_count |-> 0,
     stability_frames |-> IF enable_smoothing THEN smoothing_frames ELSE 1]

(* min(factor * base_confidence, limit), lines 138-162 *)
Capped(factor, base_confidence, limit) ==
    IF factor * base_confidence < limit * 100 THEN factor * base_confidence
    ELSE limit * 100

(* lines 119-164 *)
ClassifyGesture(hand, base_confidence) ==
    LET thumb_up == hand.fingers_up[1]
        index_up == hand.fingers_up[2]
        middle_up == hand.fingers_up[3]
        ring_up == hand.fingers_up[4]
        pinky_up == hand.fingers_up[5]
        all_up == \A i \in 1..5 : hand.fingers_up[i]
        any_up == \E i \in 1..5 : hand.fingers_up[i]
    IN  IF hand.touch_ok /\ middle_up /\ ring_up /\ pinky_up
          THEN <<2, Capped(90, base_confidence, 95)>>
        ELSE IF thumb_up /\ index_up /\ pinky_up /\ ~middle_up /\ ~ring_up
          THEN <<10, Capped(91, base_confidence, 94)>>
        ELSE IF index_up /\ pinky_up /\ ~middle_up /\ ~ring_up /\ ~thumb_up
          THEN <<7, Capped(89, base_confidence, 93)>>
        ELSE IF index_up /\ middle_up /\ ~ring_up /\ ~pinky_up
          THEN <<1, Capped(93, base_confidence, 95)>>
        ELSE IF index_up /\ ~middle_up /\ ~ring_up /\ ~pinky_up /\ ~thumb_up
          THEN <<6, Capped(92, base_confidence, 95)>>
        ELSE IF all_up
          THEN <<4, Capped(92, base_confidence, 95)>>
        ELSE IF ~any_up
          THEN <<5, Capped(90, base_confidence, 94)>>
        ELSE <<NoGesture, 0>>

(* lines 101-117 without the reset of lines 106-109: a weak classification
   is not stable but leaves the count alone *)
CheckStabilityKeepCount(r, gesture_id, confidence) ==
    IF confidence <= r.confidence_threshold
      THEN [self |-> r, stable |-> FALSE]
    ELSE LET count == IF gesture_id = r.previous_gesture
                        THEN r.consecutive_count + 1 ELSE 1
         IN  [self |-> [r EXCEPT !.previous_gesture = gesture_id,
                                 !.consecutive_count = count],
              stable |-> count >= r.stability_frames]

(* lines 101-117: the recognizer afterwards and the value returned *)
CheckStability(r, gesture_id, confidence) ==
    IF confidence <= r.confidence_threshold
      THEN [self |-> [r EXCEPT !.previous_gesture = gesture_id,
                               !.consecutive_count = 0],
            stable |-> FALSE]
    ELSE LET count == IF gesture_id = r.previous_gesture
                        THEN r.consecutive_count + 1 ELSE 1
         IN  [self |-> [r EXCEPT !.previous_gesture = gesture_id,
                                 !.consecutive_count = count],
              stable |-> count >= r.stability_frames]

(* what a frame leaves in the trail *)
Frame(kind, gesture_id, confidence) ==
    [kind |-> kind, gesture_id |-> gesture_id, confidence |-> confidence]

gestureEnv == <<coreVars, device, frameLimit, tickMs, tickLimit, scene, faults,
                filterpy, perfVars, args, kf, calls, game>>

(* recognize() with a call on too few landmarks counted as a break of the
   run *)
RecognizeOrBreak(landmarks) ==
    /\ recognizer # None
    /\ Len(trail) < MaxRecognitions
    /\ IF landmarks.points = 0 \/ landmarks.points < required_landmarks
         THEN /\ value' = GestureResult(NoGesture, "None", 0, FALSE)
              /\ trail' = Append(trail, Frame("unusable", NoGesture, 0))
              /\ recognizer' = [recognizer EXCEPT !.previous_gesture = NoGesture,
                                                  !.consecutive_count = 0]
         ELSE LET c == ClassifyGesture(landmarks.hand, landmarks.base_confidence)
                  checked == CheckStability(recognizer, c[1], c[2])
              IN  /\ recognizer' = checked.self
                  /\ value' = GestureResult(c[1], GESTURE_NAMES[c[1]], c[2],
                                            checked.stable)
                  /\ trail' = Append(trail, Frame("classified", c[1], c[2]))
    /\ UNCHANGED gestureEnv

(* lines 79-99: recognize(landmarks) *)
Recognize(landmarks) ==
    /\ recognizer # None
    /\ Len(trail) < MaxRecognitions
    /\ IF landmarks.points = 0 \/ landmarks.points < required_landmarks
         THEN /\ value' = GestureResult(NoGesture, "None", 0, FALSE)
              /\ trail' = Append(trail, Frame("unusable", NoGesture, 0))
              /\ UNCHANGED recognizer
         ELSE LET c == ClassifyGesture(landmarks.hand, landmarks.base_confidence)
                  checked == CheckStability(recognizer, c[1], c[2])
              IN  /\ recognizer' = checked.self
                  /\ value' = GestureResult(c[1], GESTURE_NAMES[c[1]], c[2],
                                            checked.stable)
                  /\ trail' = Append(trail, Frame("classified", c[1], c[2]))
    /\ UNCHANGED gestureEnv

(* bridge_server.py lines 158-172 when hand_landmarks is None: recognize()
   is not called and the gesture payload stays empty *)
FrameWithoutHand ==
    /\ recognizer # None
    /\ Len(trail) < MaxRecognitions
    /\ value' = None
    /\ trail' = Append(trail, Frame("no_hand", NoGesture, 0))
    /\ UNCHANGED <<recognizer, gestureEnv>>

(* lines 233-239 *)
ResetStability ==
    /\ recognizer # None
    /\ recognizer' = [recognizer EXCEPT !.previous_gesture = NoGesture,
                                        !.consecutive_count = 0]
    /\ UNCHANGED <<value, trail, gestureEnv>>

GestureInit ==
    /\ cfg = Config(TRUE, TRUE, TRUE, TRUE, FALSE)
    /\ Constructed
    /\ Surroundings("up", MaxFrames, TickMs, MaxTicks, FALSE, TRUE)
    /\ MetricsInit
    /\ args = None /\ value = None /\ kf = None /\ calls = 0
    /\ \E t \in ConfidenceThresholds, smoothing \in BOOLEAN :
           recognizer = NewGestureRecognizer(t, smoothing)
    /\ trail = <<>>
    /\ game = None

GestureNext ==
    \/ \E landmarks \in LandmarkLists : Recognize(landmarks)
    \/ FrameWithoutHand
    \/ ResetStability

GestureSpec == GestureInit /\ [][GestureNext]_vars

(* the classified calls of the trail, oldest first *)
Classified(frames) == SelectSeq(frames, LAMBDA f : f.kind = "classified")

(* C35: recognize() reports is_valid only if the last stability_frames
   classified calls all returned the reported gesture id, each with a
   confidence strictly above confidence_threshold; a classified call with
   a confidence at or below the threshold sets consecutive_count to 0, a
   confident call with another gesture id than the previous call sets it
   to 1, and the gesture id None is never reported as valid. *)
C35_ValidNeedsStableRun ==
    /\ []((value # None /\ value.is_valid) =>
            LET done == Classified(trail)
                n == recognizer.stability_frames
            IN  /\ value.gesture_id # NoGesture
                /\ Len(done) >= n
                /\ \A i \in (Len(done) - n + 1) .. Len(done) :
                      /\ done[i].gesture_id = value.gesture_id
                      /\ done[i].confidence > recognizer.confidence_threshold)
    /\ [][(Len(trail') > Len(trail) /\ trail'[Len(trail')].kind = "classified") =>
            LET f == trail'[Len(trail')]
            IN  /\ f.confidence <= recognizer.confidence_threshold
                     => recognizer'.consecutive_count = 0
                /\ (f.confidence > recognizer.confidence_threshold
                    /\ f.gesture_id # recognizer.previous_gesture)
                     => recognizer'.consecutive_count = 1]_vars

(* a gesture became valid on the sixth frame, after a weak classification
   of the same gesture on the first had set the count back *)
C35_Witness ==
    /\ value # None
    /\ value.is_valid
    /\ recognizer.stability_frames = smoothing_frames
    /\ Len(trail) = 6
    /\ trail[1].kind = "classified"
    /\ trail[1].gesture_id = value.gesture_id
    /\ trail[1].confidence <= recognizer.confidence_threshold
    /\ recognizer.consecutive_count = smoothing_frames

(***************************************************************************)
(* A hand that is found by every detector invocation: a camera that is up, *)
(* no faults, the worker with its exception handler, the clock and one     *)
(* reader.                                                                 *)
(***************************************************************************)
TrackedInit ==
    /\ CoreInit
    /\ cfg.motion_detection
    /\ Surroundings("up", MaxStreamFrames, TickMs, MaxTicks, FALSE, TRUE)
    /\ MetricsInit
    /\ NoCall
    /\ NoApp

(* lines 293-300: detect() returns a result with a hand *)
W_DetectHand ==
    /\ W_Detect
    /\ wl'.result.hand

TrackedNext ==
    \/ Tick
    \/ W_Loop \/ W_Open \/ W_Read \/ W_Flip \/ W_Acquire \/ W_PublishFrame
    \/ W_Gate \/ W_Motion \/ W_Stable \/ W_Prep \/ W_DetectHand \/ W_Post
    \/ W_PublishLandmarks \/ W_Except
    \/ R_Read("r1") \/ R_Return("r1")

TrackedSpec == TrackedInit /\ [][TrackedNext]_vars

(* the worker lets an eligible frame through to the detector *)
Invokes == wpc \in {"motion", "stable"} /\ wpc' = "prep"

(* C36: when the stability check runs with a motion baseline and a
   published result present, both hold the landmarks of one detection and
   the check reports stable; so with motion detection on and a hand found
   by every invocation, an invocation that follows another comes after
   exactly max_stable_skip skipped eligible frames. *)
C36_SkipsWhateverTheMotion ==
    /\ []((wpc \in {"motion", "stable"} /\ previous_landmarks # None
             /\ last_hand_landmarks # None) =>
            last_hand_landmarks.landmarks = previous_landmarks)
    /\ [][(Compared /\ last_hand_landmarks # None) =>
            (wpc' = "loop" /\ stable_frames' = stable_frames + 1)]_vars
    /\ [][(Invokes /\ cfg.motion_detection /\ previous_landmarks # None) =>
            stable_frames = max_stable_skip]_vars

(* C37: the worker reads the published landmark result for the stability
   check while it holds the lock, so no read comes between the None test
   and the dereference: at the dereference the result is still there, and
   the check does not raise because of a read. *)
C37_StableCheckUnderLock ==
    /\ wpc = "stable" => (lock = "worker" /\ last_hand_landmarks # None)
    /\ raised # "stable"

(* the landmarks lie in the frame: every x and y is in [0, 1] *)
InUnitSquare(landmarks) ==
    \A p \in landmarks : 0 <= p.x /\ p.x <= CoordDen /\ 0 <= p.y /\ p.y <= CoordDen

(* C38: for landmarks with every x and y in [0, 1] the region that
   _calculate_roi_from_landmarks returns is at least one pixel wide and one
   pixel high, and the pixel position (int(x * w), int(y * h)) of every
   landmark lies between its left and right and its upper and lower edge. *)
C38_RoiHoldsTheHand ==
    (value # None /\ InUnitSquare(args.landmarks)) =>
        /\ value.w >= 1
        /\ value.h >= 1
        /\ \A p \in args.landmarks :
              LET px == IntOf(p.x * args.frame_shape.w, CoordDen)
                  py == IntOf(p.y * args.frame_shape.h, CoordDen)
              IN  /\ value.x <= px /\ px <= value.x + value.w
                  /\ value.y <= py /\ py <= value.y + value.h

(* a frame that classified nothing has just been added to the trail *)
Unclassified ==
    /\ Len(trail') > Len(trail)
    /\ trail'[Len(trail')].kind \in {"unusable", "no_hand"}

(* C39: a recognize() call with no landmarks or fewer than 21, and a frame
   for which recognize() is not called because no hand was tracked, leave
   previous_gesture and consecutive_count as they are and are never valid;
   the count goes on from where it was at the next classified call. *)
C39_GapsKeepStability ==
    [][Unclassified =>
         /\ recognizer'.previous_gesture = recognizer.previous_gesture
         /\ recognizer'.consecutive_count = recognizer.consecutive_count
         /\ (value' # None => ~value'.is_valid)]_vars

(* a gesture valid at the sixth frame: five classifications of it, with a
   frame without a usable hand between the second and the third *)
C39_Witness ==
    /\ value # None
    /\ value.is_valid
    /\ recognizer.stability_frames = smoothing_frames
    /\ recognizer.consecutive_count = smoothing_frames
    /\ Len(trail) = 6
    /\ trail[3].kind \in {"unusable", "no_hand"}
    /\ Len(Classified(trail)) = smoothing_frames

(***************************************************************************)
(* game/game_logic.py: GestureMemoryGame.  The bridge makes every call     *)
(* under _game_lock, so a call is one step.  time.time() is the clock, in  *)
(* milliseconds; the sequences random.choice draws are those of            *)
(* RandomSequences.                                                        *)
(***************************************************************************)
MaxRounds == 2
MaxGameTicks == 3
GameTickMs == 7500
MaxStride == 1
SEQUENCE_LENGTH == 4
TIME_LIMIT == 15000

ALL_GESTURES == <<1, 2, 4, 5, 6, 7, 10>>

(* gesture_id in self.ALL_GESTURES *)
InAllGestures(gesture_id) ==
    \E i \in 1..Len(ALL_GESTURES) : ALL_GESTURES[i] = gesture_id

(* line 54: four draws from ALL_GESTURES; the sequences tried start at any
   gesture and go on with the same one or through the list *)
RandomSequences ==
    { [i \in 1..SEQUENCE_LENGTH |->
          ALL_GESTURES[((k + stride * i) % Len(ALL_GESTURES)) + 1]] :
        k \in 0..(Len(ALL_GESTURES) - 1), stride \in 0..MaxStride }

(* what input_gesture() is called with: a known gesture, None, an id that
   is no gesture *)
GestureInputs == {ALL_GESTURES[i] : i \in 1..Len(ALL_GESTURES)} \cup {NoGesture, 3}

(* lines 49-58 *)
AdvanceRound(gm, sequence, now) ==
    [gm EXCEPT !.current_round = @ + 1,
               !.sequence = sequence,
               !.player_input = <<>>,
               !.round_start_time = now,
               !.time_remaining = TIME_LIMIT]

(* lines 27-47 *)
NewGame(sequence, now) ==
    AdvanceRound([sequence |-> <<>>, player_input |-> <<>>, current_round |-> 0,
                  score |-> 0, game_over |-> FALSE, won |-> FALSE,
                  round_start_time |-> 0, time_remaining |-> TIME_LIMIT,
                  last_timeout_round |-> 0 - 1],
                 sequence, now)

(* lines 60-66: the value returned, which is also stored in time_remaining *)
GetTimeRemaining(gm, now) ==
    IF gm.game_over THEN 0
    ELSE Larger(0, TIME_LIMIT - (now - gm.round_start_time))

(* lines 68-70 *)
IsTimeExpired(gm, now) == GetTimeRemaining(gm, now) <= 0

(* the field time_remaining after get_time_remaining(), line 65 *)
Timed(gm, now) ==
    IF gm.game_over THEN gm
    ELSE [gm EXCEPT !.time_remaining = GetTimeRemaining(gm, now)]

gameEnv == <<coreVars, device, frameLimit, tickMs, tickLimit, scene, faults,
             filterpy, perfVars, kf, calls, recognizer, trail>>

(* lines 72-86 *)
CheckAndHandleTimeout ==
    /\ game # None
    /\ game.current_round <= MaxRounds
    /\ args' = [fn |-> "check_and_handle_timeout"]
    /\ LET gm == Timed(game, clock)
       IN  IF /\ IsTimeExpired(game, clock)
              /\ Len(gm.player_input) < Len(gm.sequence)
              /\ gm.current_round # gm.last_timeout_round
             THEN \E sequence \in RandomSequences :
                    /\ game' = AdvanceRound(
                                  [gm EXCEPT !.last_timeout_round = gm.current_round],
                                  sequence, clock)
                    /\ value' = [timeout_occurred |-> TRUE,
                                 new_sequence |-> sequence]
             ELSE /\ game' = gm
                  /\ value' = [timeout_occurred |-> FALSE]
    /\ UNCHANGED gameEnv

(* input_gesture() with a wrong gesture taking the progress back *)
InputGestureStartOver(gesture_id) ==
    /\ game # None
    /\ game.current_round <= MaxRounds
    /\ args' = [fn |-> "input_gesture", gesture_id |-> gesture_id]
    /\ LET time_remaining == GetTimeRemaining(game, clock)
           gm == Timed(game, clock)
           done == Len(gm.player_input)
           total == Len(gm.sequence)
       IN  IF gesture_id = NoGesture \/ ~InAllGestures(gesture_id)
             THEN /\ game' = gm
                  /\ value' = [valid |-> FALSE, complete |-> FALSE,
                               progress |-> <<done, total>>,
                               expected |-> gm.sequence[done + 1],
                               mistake |-> FALSE,
                               time_remaining |-> time_remaining]
           ELSE IF gesture_id = gm.sequence[done + 1]
             THEN IF done + 1 = total
                    THEN \E sequence \in RandomSequences :
                           /\ game' = AdvanceRound(
                                  [gm EXCEPT !.player_input = Append(@, gesture_id),
                                             !.score = @ + 1],
                                  sequence, clock)
                           /\ value' = [valid |-> TRUE, complete |-> TRUE,
                                        progress |-> <<SEQUENCE_LENGTH, SEQUENCE_LENGTH>>,
                                        expected |-> NoGesture,
                                        mistake |-> FALSE,
                                        time_remaining |-> TIME_LIMIT]
                    ELSE /\ game' = [gm EXCEPT !.player_input = Append(@, gesture_id),
                                               !.score = @ + 1]
                         /\ value' = [valid |-> TRUE, complete |-> FALSE,
                                      progress |-> <<done + 1, total>>,
                                      expected |-> gm.sequence[done + 2],
                                      mistake |-> FALSE,
                                      time_remaining |-> time_remaining]
           ELSE /\ game' = [gm EXCEPT !.player_input = <<>>]
                /\ value' = [valid |-> FALSE, complete |-> FALSE,
                             progress |-> <<0, total>>,
                             expected |-> gm.sequence[1],
                             mistake |-> TRUE,
                             time_remaining |-> time_remaining]
    /\ UNCHANGED gameEnv

(* lines 88-187; an expected gesture of None is NoGesture *)
InputGesture(gesture_id) ==
    /\ game # None
    /\ game.current_round <= MaxRounds
    /\ args' = [fn |-> "input_gesture", gesture_id |-> gesture_id]
    /\ LET time_remaining == GetTimeRemaining(game, clock)
           gm == Timed(game, clock)
           done == Len(gm.player_input)
           total == Len(gm.sequence)
       IN  IF done >= total
             THEN /\ game' = gm
                  /\ value' = [valid |-> FALSE, complete |-> TRUE,
                               progress |-> <<done, total>>,
                               expected |-> NoGesture,
                               mistake |-> FALSE,
                               time_remaining |-> time_remaining]
           ELSE IF gesture_id = NoGesture \/ ~InAllGestures(gesture_id)
             THEN /\ game' = gm
                  /\ value' = [valid |-> FALSE, complete |-> FALSE,
                               progress |-> <<done, total>>,
                               expected |-> gm.sequence[done + 1],
                               mistake |-> FALSE,
                               time_remaining |-> time_remaining]
           ELSE IF gesture_id = gm.sequence[done + 1]
             THEN IF done + 1 = total
                    THEN \E sequence \in RandomSequences :
                           /\ game' = AdvanceRound(
                                  [gm EXCEPT !.player_input = Append(@, gesture_id),
                                             !.score = @ + 1],
                                  sequence, clock)
                           /\ value' = [valid |-> TRUE, complete |-> TRUE,
                                        progress |-> <<SEQUENCE_LENGTH, SEQUENCE_LENGTH>>,
                                        expected |-> NoGesture,
                                        mistake |-> FALSE,
                                        time_remaining |-> TIME_LIMIT]
                    ELSE /\ game' = [gm EXCEPT !.player_input = Append(@, gesture_id),
                                               !.score = @ + 1]
                         /\ value' = [valid |-> TRUE, complete |-> FALSE,
                                      progress |-> <<done + 1, total>>,
                                      expected |-> gm.sequence[done + 2],
                                      mistake |-> FALSE,
                                      time_remaining |-> time_remaining]
           ELSE /\ game' = gm
                /\ value' = [valid |-> FALSE, complete |-> FALSE,
                             progress |-> <<done, total>>,
                             expected |-> gm.sequence[done + 1],
                             mistake |-> FALSE,
                             time_remaining |-> time_remaining]
    /\ UNCHANGED gameEnv

GameInit ==
    /\ cfg = Config(TRUE, TRUE, TRUE, TRUE, FALSE)
    /\ Constructed
    /\ Surroundings("up", MaxFrames, GameTickMs, MaxGameTicks, FALSE, TRUE)
    /\ MetricsInit
    /\ args = None /\ value = None /\ kf = None /\ calls = 0
    /\ recognizer = None
    /\ trail = <<>>
    /\ \E sequence \in RandomSequences : game = NewGame(sequence, clock)

GameNext ==
    \/ Tick
    \/ \E gesture_id \in GestureInputs : InputGesture(gesture_id)
    \/ CheckAndHandleTimeout

GameSpec == GameInit /\ [][GameNext]_vars

(* a call on the game has been made, and what it was *)
GameCall == <<args, value, game>>' # <<args, value, game>>
Inputs == GameCall /\ args'.fn = "input_gesture"
ChecksTimeout == GameCall /\ args'.fn = "check_and_handle_timeout"

(* the gesture the game waits for *)
Expected == game.sequence[Len(game.player_input) + 1]

(* C40: after construction and after every call the sequence has 4 gestures
   of ALL_GESTURES and player_input is a prefix of it of length 0 to 3; the
   score grows by one with every gesture accepted and changes at no other
   call; a gesture that is None, unknown or not the expected one leaves
   sequence, player_input, score and current_round as they are;
   current_round grows by one when the fourth gesture of the sequence is
   accepted and when a timeout is handled, which happens when the time limit
   has passed, and changes at no other call. *)
C40_RoundsAndScore ==
    /\ [](/\ Len(game.sequence) = SEQUENCE_LENGTH
          /\ \A i \in 1..Len(game.sequence) : InAllGestures(game.sequence[i])
          /\ Len(game.player_input) < SEQUENCE_LENGTH
          /\ game.player_input = SubSeq(game.sequence, 1, Len(game.player_input))
          /\ game.current_round >= 1
          /\ game.last_timeout_round < game.current_round)
    /\ [][game'.score = game.score
                          + (IF Inputs /\ args'.gesture_id = Expected THEN 1 ELSE 0)]_vars
    /\ [][(Inputs /\ args'.gesture_id # Expected) =>
            /\ game'.sequence = game.sequence
            /\ game'.player_input = game.player_input
            /\ game'.score = game.score
            /\ game'.current_round = game.current_round
            /\ ~value'.valid]_vars
    /\ [][game'.current_round = game.current_round
            + (IF \/ /\ Inputs
                     /\ args'.gesture_id = Expected
                     /\ Len(game.player_input) = SEQUENCE_LENGTH - 1
                  \/ /\ ChecksTimeout
                     /\ clock - game.round_start_time >= TIME_LIMIT
               THEN 1 ELSE 0)]_vars

(* the third round: the first was completed, the second timed out after one
   of its gestures had been accepted *)
C40_Witness ==
    /\ game.current_round = 3
    /\ game.last_timeout_round = 2
    /\ game.score = SEQUENCE_LENGTH + 1
    /\ game.player_input = <<>>
    /\ value = [timeout_occurred |-> TRUE, new_sequence |-> game.sequence]

====
